---- MODULE Spec2Model ----
(***************************************************************************)
(* State-machine model of the AI horror adventure engine:                  *)
(*   GameEngine (src/src/game-engine.ts) - narrative state, startGame,     *)
(*     makeChoice, resetGame, saveGame, loadGame;                          *)
(*   GameUI (src/src/game-ui.ts) - the handlers that call the engine.      *)
(* A model request is outstanding between the step that issues it and the  *)
(* step in which its response (or its failure) is delivered; everything a  *)
(* handler does between two awaits is one atomic step.                     *)
(* Japanese string literals of the source are rendered in ASCII.           *)
(***************************************************************************)
EXTENDS Integers, Naturals, Sequences, FiniteSets, TLC

----------------------------------------------------------------------------
(* Bounds of the model                                                     *)

\* makeChoice is issued only while history has fewer entries than this
MaxHistory == 4
\* at most this many model requests are outstanding at once
MaxInflight == 2
\* the player makes at most this many gestures (button clicks) in the UI
MaxGestures == 5

----------------------------------------------------------------------------
(* Values                                                                  *)

\* a missing property of a JavaScript object
Undefined == "undefined"
\* what JSON.stringify writes for an undefined array element
Null == "null"

ChoiceA == [id |-> "c1", text |-> "Look around", description |-> "Survey the room"]
ChoiceB == [id |-> "c2", text |-> "Run", description |-> "Leave at once"]

\* ids a caller may pass to makeChoice: an id the model hands out, an id
\* that matches no choice, and the reserved id
ChoiceIds == {"c1", "zz", "restart"}

Stories == {"s1", "s2"}
TerminalStatuses == {"gameover", "gameclear"}
GameStatus == {"continue"} \cup TerminalStatuses

\* the parsed JSON object of a model response.  hasChoices = FALSE is a
\* payload without a choices property.
Payload(story, gameStatus, description, hasChoices, list) ==
    [story |-> story, gameStatus |-> gameStatus, description |-> description,
     hasChoices |-> hasChoices, choices |-> list]

\* the payloads the model answers with: the shapes of the narrative schema,
\* and shapes that leave out or garble a property
Payloads ==
    { Payload("s1", "continue", Undefined, TRUE, <<ChoiceA, ChoiceB>>),
      Payload("s2", "continue", Undefined, TRUE, <<ChoiceB>>),
      Payload("s2", Undefined, Undefined, FALSE, <<>>),
      Payload(Undefined, "continue", Undefined, TRUE, <<ChoiceA>>),
      Payload("s2", "gameover", "r1", FALSE, <<>>),
      Payload("s1", "gameclear", Undefined, TRUE, <<ChoiceA>>),
      Payload("s1", "paused", Undefined, TRUE, <<ChoiceA>>),
      Payload("s2", "", Undefined, TRUE, <<ChoiceA>>) }

NoPayload ==
    [story |-> Undefined, gameStatus |-> Undefined, description |-> Undefined,
     hasChoices |-> FALSE, choices |-> <<>>]

\* the ways a model request can fail before a payload exists
FailureKinds == {"transportError", "noJson", "invalidJson"}

\* the state object the constructor and resetGame install
IdleState ==
    [story |-> "", history |-> <<>>, currentStep |-> 0,
     gameStatus |-> "continue", gameResultDescription |-> Undefined,
     choices |-> <<>>]

GameOverChoices ==
    << [id |-> "restart", text |-> "Start over",
        description |-> "Restart the game from the beginning"] >>
GameClearChoices ==
    << [id |-> "restart", text |-> "Play again",
        description |-> "Play the game once more"] >>

MakeChoiceErrorMessage == "Communication failed. Check the API settings and choose again."

----------------------------------------------------------------------------
(* State                                                                   *)

VARIABLES
    gameState,     \* GameEngine.gameState
    choices,       \* GameEngine.choices (the private list)
    inflight,      \* outstanding model requests, in the order issued
    storage,       \* localStorage slot 'aiHorrorGameState': <<>> or <<record>>
    effects,       \* effector calls made by the last step
    last,          \* what the last step did and, for a settled call, its outcome
    isProcessing,  \* GameUI.isProcessing
    screen,        \* which screen the UI shows: "title" or "game"
    buttons,       \* ids of the choice buttons in the choices container
    animating,     \* choice lists of handleChoiceClick calls in animateSceneUpdate
    gestures,      \* how many buttons the player has clicked so far
    extraction,    \* a model response text and what the engine extracts from it
    gemini,        \* GeminiClient: a turn list and its transformed contents
    stream,        \* LMStudioClient.streamResponse: reads, buffer, fullContent
    http,          \* a sendMessage call against a backend and its outcome
    voice,         \* VoicevoxClient: currentAudio and the clips it created
    bgm,           \* BGMManager: isPlaying, the audio element, pending play()
    held,          \* the object the caller got from its last getGameState or
                   \* loadGame has the engine's history array as its history
    earlier,       \* the GameEngine and GameUI pairs earlier start clicks
                   \* built: they stay alive beside the current pair
    built          \* how many GameUI the handlers of main.ts have built;
                   \* each has registered its listeners on the buttons

engineVars == <<gameState, choices, inflight, storage, effects, last, held>>
uiVars == <<isProcessing, screen, buttons, animating, gestures, earlier,
            built>>
clientVars == <<extraction, gemini, stream, http, voice, bgm>>
vars == <<gameState, choices, inflight, storage, effects, last,
          isProcessing, screen, buttons, animating, gestures,
          extraction, gemini, stream, http, voice, bgm, held, earlier, built>>

----------------------------------------------------------------------------
(* Pure helpers                                                            *)

\* x || y for a text that may be missing
OrElse(x, y) == IF x = Undefined \/ x = "" THEN y ELSE x

\* payload.choices || []
ChoicesOrEmpty(p) == IF p.hasChoices THEN p.choices ELSE <<>>

RECURSIVE FindChoice(_, _)
\* Array.prototype.find(c => c.id === choiceId): <<choice>> or <<>>
FindChoice(list, choiceId) ==
    IF list = <<>> THEN <<>>
    ELSE IF Head(list).id = choiceId THEN <<Head(list)>>
    ELSE FindChoice(Tail(list), choiceId)

\* a lookup that formats the missing choice instead of falling back to the id
getChoiceActionTextWithoutFallback(list, choiceId) ==
    LET found == FindChoice(list, choiceId)
    IN  IF found # <<>>
        THEN found[1].text \o " - " \o found[1].description
        ELSE "undefined - undefined"

\* getChoiceActionText: "<text> - <description>" of the choice with the id,
\* "<id> wo jikkou" ("execute <id>") when no choice has it
getChoiceActionText(list, choiceId) ==
    LET found == FindChoice(list, choiceId)
    IN  IF found # <<>>
        THEN found[1].text \o " - " \o found[1].description
        ELSE choiceId \o " wo jikkou"

\* Array.prototype.pop on history: removes the last entry if there is one
Pop(h) == IF h = <<>> THEN <<>> ELSE SubSeq(h, 1, Len(h) - 1)

\* the fixed opening prompt pair of generateInitialScenario
generateInitialScenario ==
    << [role |-> "system", content |-> <<"openingSystemPrompt">>],
       [role |-> "user", content |-> <<"openingUserPrompt">>] >>

\* a replay that starts with a user turn
ChoiceMessagesUserFirst(gs, list, choiceId) ==
    << [role |-> "system", content |-> <<"systemPrompt">>] >>
    \o [i \in 1..Len(gs.history) |->
          [role |-> IF (i - 1) % 2 = 0 THEN "user" ELSE "assistant",
           content |-> <<gs.history[i]>>]]
    \o << [role |-> "user",
           content |-> <<"choicePrompt", getChoiceActionText(list, choiceId),
                         gs.story>>] >>

\* the conversation makeChoice builds from the state after the append
ChoiceMessages(gs, list, choiceId) ==
    << [role |-> "system", content |-> <<"systemPrompt">>] >>
    \o [i \in 1..Len(gs.history) |->
          [role |-> IF (i - 1) % 2 = 0 THEN "assistant" ELSE "user",
           content |-> <<gs.history[i]>>]]
    \o << [role |-> "user",
           content |-> <<"choicePrompt", getChoiceActionText(list, choiceId),
                         gs.story>>] >>

\* JSON.stringify followed by JSON.parse of a state object: a property whose
\* value is undefined is dropped, an undefined array element comes back null
JsonRoundTrip(gs) ==
    [gs EXCEPT !.history =
        [i \in 1..Len(gs.history) |->
            IF gs.history[i] = Undefined THEN Null ELSE gs.history[i]]]

\* isValidGameState on a parsed record.  Every record saveGame writes has an
\* array for history and a number for currentStep, so the two checks that
\* can fail are the type of story and the value of gameStatus.
isValidGameState(state) ==
    /\ state.story # Undefined
    /\ state.gameStatus \in {"continue", "gameover", "gameclear"}

RemoveAt(s, i) == SubSeq(s, 1, i - 1) \o SubSeq(s, i + 1, Len(s))

Ids(list) == [i \in 1..Len(list) |-> list[i].id]

NoOutcome ==
    [op |-> "none", kind |-> "none", choiceId |-> "", scene |-> Undefined,
     newChoices |-> <<>>, error |-> Undefined, pre |-> IdleState,
     preChoices |-> <<>>, payload |-> NoPayload, messages |-> <<>>,
     retryOf |-> <<>>]

----------------------------------------------------------------------------
(* Initial state: a fresh engine, a fresh UI on the title screen           *)

\* the clients are not in use while the engine and the UI are explored
ClientsIdle ==
    /\ extraction = "idle"
    /\ gemini = "idle"
    /\ stream = "idle"
    /\ http = "idle"
    /\ voice = "idle"
    /\ bgm = "idle"

\* how many superseded engine and UI pairs are followed
MaxEarlier == 1

Slots == 1..MaxEarlier

\* a GameEngine and its GameUI as their constructors leave them.  buttons
\* are the choice buttons this GameUI rendered that are in the container.
FreshInstance ==
    [gameState |-> IdleState, choices |-> <<>>, inflight |-> <<>>,
     isProcessing |-> FALSE, animating |-> <<>>, buttons |-> <<>>]

\* another GameUI wrote the choices container: the buttons of the earlier
\* instances are gone from it
NoButtons(f) == [e \in Slots |-> [f[e] EXCEPT !.buttons = <<>>]]

SessionInit ==
    /\ earlier = [e \in Slots |-> FreshInstance]
    /\ built = 0
    /\ gameState = IdleState
    /\ choices = <<>>
    /\ inflight = <<>>
    /\ storage = <<>>
    /\ effects = <<>>
    /\ last = NoOutcome
    /\ held = FALSE
    /\ isProcessing = FALSE
    /\ screen = "title"
    /\ buttons = <<>>
    /\ animating = <<>>
    /\ gestures = 0

Init == SessionInit /\ ClientsIdle

----------------------------------------------------------------------------
(* GameEngine: state transformers                                          *)

\* a startGame that copies the status of the opening payload
StartGameStateWithPayloadStatus(p) ==
    [story |-> p.story, history |-> <<p.story>>, currentStep |-> 0,
     gameStatus |-> IF p.gameStatus # Undefined THEN p.gameStatus ELSE "continue",
     gameResultDescription |-> Undefined,
     choices |-> ChoicesOrEmpty(p)]

\* the state object startGame installs from the opening payload
StartGameState(p) ==
    [story |-> p.story, history |-> <<p.story>>, currentStep |-> 0,
     gameStatus |-> "continue", gameResultDescription |-> Undefined,
     choices |-> ChoicesOrEmpty(p)]

\* an append that forgets currentStep++
AppendActionWithoutStep(gs, list, choiceId) ==
    [gs EXCEPT !.history = Append(gs.history, getChoiceActionText(list, choiceId))]

\* makeChoice before the request: history.push(choiceAction); currentStep++
AppendAction(gs, list, choiceId) ==
    [gs EXCEPT !.history = Append(gs.history, getChoiceActionText(list, choiceId)),
               !.currentStep = gs.currentStep + 1]

\* the status after "if (parsedResponse.gameStatus) gameStatus = ...": a
\* missing gameStatus and the empty string are both falsy and keep the status
StatusAfter(gs, p) ==
    IF p.gameStatus # Undefined /\ p.gameStatus # ""
    THEN p.gameStatus ELSE gs.gameStatus

\* the story after "if (parsedResponse.story) story = ..."
StoryAfter(gs, p) ==
    IF p.story # Undefined /\ p.story # "" THEN p.story ELSE gs.story

\* choices taken from the payload whatever the status
ChoicesAfterFromPayload(gs, p) == ChoicesOrEmpty(p)

\* this.choices after a successful response
ChoicesAfter(gs, p) ==
    IF StatusAfter(gs, p) = "gameover" THEN GameOverChoices
    ELSE IF StatusAfter(gs, p) = "gameclear" THEN GameClearChoices
    ELSE ChoicesOrEmpty(p)

\* a commit that installs the payload and leaves the new story out of history
ApplyPayloadWithoutHistory(gs, p) ==
    [story |-> StoryAfter(gs, p),
     history |-> gs.history,
     currentStep |-> gs.currentStep,
     gameStatus |-> StatusAfter(gs, p),
     gameResultDescription |->
        IF StatusAfter(gs, p) \in TerminalStatuses
        THEN OrElse(p.description, "")
        ELSE gs.gameResultDescription,
     choices |-> ChoicesAfter(gs, p)]

\* gameState after a successful response
ApplyPayload(gs, p) ==
    [story |-> StoryAfter(gs, p),
     history |-> Append(gs.history, StoryAfter(gs, p)),
     currentStep |-> gs.currentStep,
     gameStatus |-> StatusAfter(gs, p),
     gameResultDescription |->
        IF StatusAfter(gs, p) \in TerminalStatuses
        THEN OrElse(p.description, "")
        ELSE gs.gameResultDescription,
     choices |-> ChoicesAfter(gs, p)]

\* the effector calls of a successful makeChoice
ApplyEffects(gs, p) ==
    IF StatusAfter(gs, p) \in TerminalStatuses
    THEN <<"bgmStop", "speakText">>
    ELSE <<"speakText">>

\* a catch block that pops the entry and forgets currentStep--
RollbackWithoutStep(gs) == [gs EXCEPT !.history = Pop(gs.history)]

\* the catch block of makeChoice: history.pop(); currentStep--
Rollback(gs) ==
    [gs EXCEPT !.history = Pop(gs.history),
               !.currentStep = gs.currentStep - 1]

\* a saveGame without the guard on an empty history
SavedStorageAlways(gs, slot) == <<JsonRoundTrip(gs)>>

\* what saveGame leaves in the storage slot
SavedStorage(gs, slot) ==
    IF Len(gs.history) = 0 THEN slot ELSE <<JsonRoundTrip(gs)>>

\* a makeChoice that repeats the id of the makeChoice that just failed is a
\* retry: the state and choices the failed attempt had found
RetryOf(op, choiceId) ==
    IF /\ op = "makeChoice"
       /\ last.op = "makeChoice" /\ last.kind = "returned"
       /\ last.payload = NoPayload
       /\ last.choiceId = choiceId
    THEN <<[gameState |-> last.pre, choices |-> last.preChoices]>>
    ELSE <<>>

\* the record of an outstanding request
Call(op, choiceId, ui, messages, gs, list) ==
    [op |-> op, choiceId |-> choiceId, ui |-> ui, messages |-> messages,
     pre |-> gs, preChoices |-> list, retryOf |-> RetryOf(op, choiceId)]

\* the outcome of a settled call, as its caller sees it
Outcome(call, kind, scene, newChoices, error, p) ==
    [op |-> IF call.choiceId = "" THEN "startGame" ELSE "makeChoice",
     kind |-> kind, choiceId |-> call.choiceId, scene |-> scene,
     newChoices |-> newChoices, error |-> error, pre |-> call.pre,
     preChoices |-> call.preChoices, payload |-> p,
     messages |-> call.messages, retryOf |-> call.retryOf]

Did(op) == [NoOutcome EXCEPT !.op = op, !.kind = "done"]

----------------------------------------------------------------------------
(* GameUI: what a handler does when its engine call settles                *)

\* ui = "none": the engine was called directly, no handler is waiting
\* ui = "start": GameUI.initializeGame  ui = "click": GameUI.handleChoiceClick
UISettle(call, ok, newChoices) ==
    IF call.ui = "start" THEN
        /\ isProcessing' = FALSE
        /\ buttons' = IF ok THEN Ids(newChoices) ELSE buttons
        /\ earlier' = IF ok THEN NoButtons(earlier) ELSE earlier
        /\ UNCHANGED <<screen, animating, gestures, clientVars, built>>
    ELSE IF call.ui = "click" THEN
        IF ok THEN
            /\ animating' = Append(animating, newChoices)
            /\ buttons' = IF call.choiceId = "restart" THEN <<>> ELSE buttons
            /\ earlier' = IF call.choiceId = "restart"
                          THEN NoButtons(earlier) ELSE earlier
            /\ UNCHANGED <<isProcessing, screen, gestures, clientVars, built>>
        ELSE
            /\ isProcessing' = FALSE
            /\ UNCHANGED <<screen, buttons, animating, gestures, clientVars,
                           earlier, built>>
    ELSE UNCHANGED <<uiVars, clientVars>>

----------------------------------------------------------------------------
(* GameEngine: issuing a request                                           *)

\* startGame up to its await; gs is the state the call finds.  choiceId is
\* "restart" when makeChoice delegates to it, "" when it is called directly.
IssueStartGame(gs, choiceId, ui) ==
    /\ Len(inflight) < MaxInflight
    /\ inflight' = Append(inflight,
                     Call("startGame", choiceId, ui, generateInitialScenario,
                          gs, choices))
    /\ UNCHANGED <<choices, storage>>

\* makeChoice with a non-restart id, up to its await
IssueMakeChoice(choiceId, ui) ==
    /\ choiceId # "restart"
    /\ Len(inflight) < MaxInflight
    /\ Len(gameState.history) < MaxHistory
    /\ gameState' = AppendAction(gameState, choices, choiceId)
    /\ inflight' = Append(inflight,
                     Call("makeChoice", choiceId, ui,
                          ChoiceMessages(AppendAction(gameState, choices, choiceId),
                                         choices, choiceId),
                          gameState, choices))
    /\ effects' = <<>>
    /\ last' = [NoOutcome EXCEPT !.op = "makeChoice", !.kind = "issued",
                                 !.choiceId = choiceId]
    /\ UNCHANGED <<choices, storage>>

\* makeChoice(choiceId), any id: "restart" is intercepted and delegated
IssueChoice(choiceId, ui) ==
    IF choiceId = "restart"
    THEN /\ IssueStartGame(gameState, "restart", ui)
         /\ effects' = <<"bgmPlay">>
         /\ last' = [NoOutcome EXCEPT !.op = "makeChoice", !.kind = "issued",
                                      !.choiceId = "restart"]
         /\ UNCHANGED gameState
    ELSE IssueMakeChoice(choiceId, ui)

----------------------------------------------------------------------------
(* GameEngine: a request settles                                           *)

\* a startGame that adds the opening scene to the history it finds
StartGameSucceedsKeepingHistory(i, p) ==
    /\ i \in 1..Len(inflight)
    /\ inflight[i].op = "startGame"
    /\ gameState' = [StartGameState(p) EXCEPT
                        !.history = Append(gameState.history, p.story),
                        !.currentStep = gameState.currentStep]
    /\ choices' = ChoicesOrEmpty(p)
    /\ inflight' = RemoveAt(inflight, i)
    /\ effects' = <<"speakText">>
    /\ last' = Outcome(inflight[i], "returned", p.story, ChoicesOrEmpty(p),
                       Undefined, p)
    /\ UISettle(inflight[i], TRUE, ChoicesOrEmpty(p))
    /\ UNCHANGED storage
    /\ held' = FALSE

\* the model answered a startGame request with a parseable payload
StartGameSucceeds(i, p) ==
    /\ i \in 1..Len(inflight)
    /\ inflight[i].op = "startGame"
    /\ gameState' = StartGameState(p)
    /\ choices' = ChoicesOrEmpty(p)
    /\ inflight' = RemoveAt(inflight, i)
    /\ effects' = <<"speakText">>
    /\ last' = Outcome(inflight[i], "returned", p.story, ChoicesOrEmpty(p),
                       Undefined, p)
    /\ UISettle(inflight[i], TRUE, ChoicesOrEmpty(p))
    /\ UNCHANGED storage
    /\ held' = FALSE

\* a catch block that installs a hardcoded opening scene and returns it
StartGameFallsBack(i, kind) ==
    /\ i \in 1..Len(inflight)
    /\ inflight[i].op = "startGame"
    /\ gameState' = [IdleState EXCEPT !.story = "fallback scene",
                                      !.history = <<"fallback scene">>]
    /\ choices' = <<>>
    /\ inflight' = RemoveAt(inflight, i)
    /\ effects' = <<>>
    /\ last' = Outcome(inflight[i], "returned", "fallback scene", <<>>, kind,
                       NoPayload)
    /\ UISettle(inflight[i], TRUE, <<>>)
    /\ UNCHANGED storage
    /\ held' = FALSE

\* the request of a startGame failed, or its text had no parseable object:
\* the catch block logs and rethrows
StartGameFails(i, kind) ==
    /\ i \in 1..Len(inflight)
    /\ inflight[i].op = "startGame"
    /\ inflight' = RemoveAt(inflight, i)
    /\ effects' = <<>>
    /\ last' = Outcome(inflight[i], "thrown", Undefined, <<>>, kind, NoPayload)
    /\ UISettle(inflight[i], FALSE, <<>>)
    /\ UNCHANGED <<gameState, choices, storage>>
    /\ UNCHANGED held

\* the model answered a makeChoice request with a parseable payload
MakeChoiceSucceeds(i, p) ==
    /\ i \in 1..Len(inflight)
    /\ inflight[i].op = "makeChoice"
    /\ gameState' = ApplyPayload(gameState, p)
    /\ choices' = ChoicesAfter(gameState, p)
    /\ inflight' = RemoveAt(inflight, i)
    /\ effects' = ApplyEffects(gameState, p)
    /\ last' = Outcome(inflight[i], "returned", StoryAfter(gameState, p),
                       ChoicesAfter(gameState, p), Undefined, p)
    /\ UISettle(inflight[i], TRUE, ChoicesAfter(gameState, p))
    /\ UNCHANGED storage
    /\ UNCHANGED held

\* a catch block that rolls back and rethrows
MakeChoiceRethrows(i, kind) ==
    /\ i \in 1..Len(inflight)
    /\ inflight[i].op = "makeChoice"
    /\ gameState' = Rollback(gameState)
    /\ inflight' = RemoveAt(inflight, i)
    /\ effects' = <<>>
    /\ last' = Outcome(inflight[i], "thrown", Undefined, <<>>, kind, NoPayload)
    /\ UISettle(inflight[i], FALSE, choices)
    /\ UNCHANGED <<choices, storage>>
    /\ UNCHANGED held

\* the request of a makeChoice failed, or its text had no parseable object:
\* the catch block rolls back and returns the error bundle
MakeChoiceFails(i, kind) ==
    /\ i \in 1..Len(inflight)
    /\ inflight[i].op = "makeChoice"
    /\ gameState' = Rollback(gameState)
    /\ inflight' = RemoveAt(inflight, i)
    /\ effects' = <<>>
    /\ last' = Outcome(inflight[i], "returned", gameState.story, choices,
                       MakeChoiceErrorMessage, NoPayload)
    /\ UISettle(inflight[i], FALSE, choices)
    /\ UNCHANGED <<choices, storage>>
    /\ UNCHANGED held

----------------------------------------------------------------------------
(* GameEngine called directly, one call at a time                          *)

StartGame ==
    /\ inflight = <<>>
    /\ IssueStartGame(gameState, "", "none")
    /\ effects' = <<"bgmPlay">>
    /\ last' = [NoOutcome EXCEPT !.op = "startGame", !.kind = "issued"]
    /\ UNCHANGED gameState
    /\ UNCHANGED <<uiVars, clientVars>>
    /\ UNCHANGED held

MakeChoice(choiceId) ==
    /\ inflight = <<>>
    /\ IssueChoice(choiceId, "none")
    /\ UNCHANGED <<uiVars, clientVars>>
    /\ UNCHANGED held

\* a resetGame that also removes the stored record
ResetGameClearsStorage ==
    /\ inflight = <<>>
    /\ gameState' = IdleState
    /\ storage' = <<>>
    /\ effects' = <<"bgmStop">>
    /\ last' = Did("resetGame")
    /\ UNCHANGED <<choices, inflight>>
    /\ UNCHANGED <<uiVars, clientVars>>
    /\ held' = FALSE

\* resetGame: installs the idle state object, calls bgmManager.stop()
ResetGame ==
    /\ inflight = <<>>
    /\ gameState' = IdleState
    /\ effects' = <<"bgmStop">>
    /\ last' = Did("resetGame")
    /\ UNCHANGED <<choices, inflight, storage>>
    /\ UNCHANGED <<uiVars, clientVars>>
    /\ held' = FALSE

SaveGame ==
    /\ inflight = <<>>
    /\ storage' = SavedStorage(gameState, storage)
    /\ effects' = <<>>
    /\ last' = Did("saveGame")
    /\ UNCHANGED <<gameState, choices, inflight>>
    /\ UNCHANGED <<uiVars, clientVars>>
    /\ UNCHANGED held

\* localStorage.setItem raised (quota, storage disabled): the catch block of
\* saveGame logs the error, the slot keeps what it held
SaveGameStorageThrows ==
    /\ inflight = <<>>
    /\ gameState.history # <<>>
    /\ effects' = <<"setItemThrows">>
    /\ last' = Did("saveGame")
    /\ UNCHANGED <<gameState, choices, inflight, storage>>
    /\ UNCHANGED <<uiVars, clientVars>>
    /\ UNCHANGED held

\* loadGame: installs the stored record when it passes isValidGameState
LoadedState(gs, slot) ==
    IF slot # <<>> /\ isValidGameState(slot[1]) THEN slot[1] ELSE gs

LoadGame ==
    /\ inflight = <<>>
    /\ gameState' = LoadedState(gameState, storage)
    /\ effects' = <<>>
    /\ last' = [Did("loadGame") EXCEPT
                  !.kind = IF storage # <<>> /\ isValidGameState(storage[1])
                           THEN "loaded" ELSE "null",
                  !.pre = gameState]
    /\ UNCHANGED <<choices, inflight, storage>>
    /\ UNCHANGED <<uiVars, clientVars>>
    /\ held' = IF storage # <<>> /\ isValidGameState(storage[1]) THEN TRUE ELSE held

Next ==
    \/ StartGame
    \/ \E choiceId \in ChoiceIds : MakeChoice(choiceId)
    \/ ResetGame
    \/ \E i \in 1..Len(inflight), p \in Payloads : StartGameSucceeds(i, p)
    \/ \E i \in 1..Len(inflight), kind \in FailureKinds : StartGameFails(i, kind)
    \/ \E i \in 1..Len(inflight), p \in Payloads : MakeChoiceSucceeds(i, p)
    \/ \E i \in 1..Len(inflight), kind \in FailureKinds : MakeChoiceFails(i, kind)

Spec == Init /\ [][Next]_vars

\* a session: startGame, then makeChoice calls only, one call at a time
NextTurns ==
    \/ StartGame
    \/ \E choiceId \in ChoiceIds :
          gameState.history # <<>> /\ MakeChoice(choiceId)
    \/ \E i \in 1..Len(inflight), p \in Payloads : StartGameSucceeds(i, p)
    \/ \E i \in 1..Len(inflight), kind \in FailureKinds : StartGameFails(i, kind)
    \/ \E i \in 1..Len(inflight), p \in Payloads : MakeChoiceSucceeds(i, p)
    \/ \E i \in 1..Len(inflight), kind \in FailureKinds : MakeChoiceFails(i, kind)

SpecTurns == Init /\ [][NextTurns]_vars

----------------------------------------------------------------------------
(* GameEngine called directly, one call at a time, with the session store. *)
(* The stored record multiplies the state space, so the model answers with *)
(* fewer payloads here.                                                    *)

StorePayloads ==
    { Payload("s1", "continue", Undefined, TRUE, <<ChoiceA, ChoiceB>>),
      Payload(Undefined, "continue", Undefined, TRUE, <<ChoiceA>>),
      Payload("s2", "gameover", "r1", FALSE, <<>>) }

StoreChoiceIds == {"c1", "restart"}

NextStore ==
    \/ StartGame
    \/ \E choiceId \in StoreChoiceIds : MakeChoice(choiceId)
    \/ ResetGame
    \/ SaveGame
    \/ SaveGameStorageThrows
    \/ LoadGame
    \/ \E i \in 1..Len(inflight), p \in StorePayloads : StartGameSucceeds(i, p)
    \/ \E i \in 1..Len(inflight) : StartGameFails(i, "transportError")
    \/ \E i \in 1..Len(inflight), p \in StorePayloads : MakeChoiceSucceeds(i, p)
    \/ \E i \in 1..Len(inflight) : MakeChoiceFails(i, "transportError")

SpecStore == Init /\ [][NextStore]_vars

----------------------------------------------------------------------------
(* GameUI: the handlers of the title screen and of the game screen.        *)
(* The start handler of main.ts builds a GameEngine and a GameUI on every  *)
(* click.  The variables gameState .. animating follow the pair built      *)
(* last; the pairs built before it stay alive in `earlier`, each with its  *)
(* own request, isProcessing, timers and listeners.                        *)

\* a handler of the UI is invoked
Gesture ==
    /\ gestures < MaxGestures
    /\ gestures' = gestures + 1
    /\ UNCHANGED clientVars

\* the listeners of the start, load and confirm-settings buttons:
\* startGameFromTitle, loadGameFromTitle and saveSettingsAndReturnToGame
\* call saveSettings first.  It returns false when the Gemini key is missing
\* and raises at the call of gameEngine.setBGMVolume, a method GameEngine
\* does not define, before it shows the game screen; either way startGame
\* and loadGame are not reached and no screen changes.
UIClickOnTitle(handler) ==
    /\ Gesture
    /\ effects' = <<>>
    /\ last' = [Did(handler) EXCEPT !.kind = "refused"]
    /\ UNCHANGED <<gameState, choices, inflight, storage>>
    /\ UNCHANGED <<isProcessing, screen, buttons, animating, earlier, built>>
    /\ UNCHANGED held

\* the engine and the UI as their constructors leave them
FreshEngineAndUI ==
    /\ gameState = IdleState
    /\ choices = <<>>
    /\ inflight = <<>>
    /\ animating = <<>>
    /\ ~isProcessing

\* the superseded pair inst is kept in the first slot whose pair is as its
\* constructors left it (such a pair does nothing a new one would not do)
Park(f, inst) ==
    LET e == CHOOSE e \in Slots :
                 /\ f[e] = FreshInstance
                 /\ \A d \in Slots : f[d] = FreshInstance => e <= d
    IN  [f EXCEPT ![e] = inst]

\* the start handler of main.ts up to the await of GameUI.initializeGame:
\* it builds a GameEngine and a GameUI, empties the scene and the choices
\* container, shows the game screen and calls initializeGame
\* (setProcessingState(true), gameEngine.startGame, no resetGame).  The pair
\* it replaces stays alive with its request, its timers and its listeners.
UIInitializeGame ==
    /\ Gesture
    /\ \/ FreshEngineAndUI
       \/ \E e \in Slots : NoButtons(earlier)[e] = FreshInstance
    /\ earlier' = IF FreshEngineAndUI THEN NoButtons(earlier)
                  ELSE Park(NoButtons(earlier),
                            [gameState |-> gameState, choices |-> choices,
                             inflight |-> inflight,
                             isProcessing |-> isProcessing,
                             animating |-> animating, buttons |-> <<>>])
    /\ gameState' = IdleState
    /\ choices' = <<>>
    /\ inflight' = <<Call("startGame", "", "start", generateInitialScenario,
                          IdleState, <<>>)>>
    /\ isProcessing' = TRUE
    /\ animating' = <<>>
    /\ buttons' = <<>>
    /\ screen' = "game"
    /\ built' = built + 1
    /\ effects' = <<"bgmPlay">>
    /\ last' = [NoOutcome EXCEPT !.op = "startGame", !.kind = "issued"]
    /\ UNCHANGED storage
    /\ held' = FALSE

\* the buttons displayChoicesFromState builds for a loaded state
ButtonsFromState(gs) ==
    IF gs.gameStatus \in TerminalStatuses THEN <<"restart">> ELSE Ids(gs.choices)

\* the load handler of main.ts: it builds a GameEngine and a GameUI when
\* there is none yet, then gameEngine.loadGame(); with a state it shows
\* the game screen, calls GameUI.updateDisplayFromState and
\* gameEngine.speakText; without one it alerts
UIMainLoadGame ==
    /\ Gesture
    /\ built' = IF built = 0 THEN 1 ELSE built
    /\ gameState' = LoadedState(gameState, storage)
    /\ IF storage # <<>> /\ isValidGameState(storage[1])
       THEN /\ screen' = "game"
            /\ buttons' = ButtonsFromState(storage[1])
            /\ earlier' = NoButtons(earlier)
            /\ effects' = <<"speakText">>
            /\ last' = [Did("loadGame") EXCEPT !.kind = "loaded"]
       ELSE /\ screen' = screen
            /\ buttons' = buttons
            /\ earlier' = earlier
            /\ effects' = <<>>
            /\ last' = [Did("loadGame") EXCEPT !.kind = "null"]
    /\ UNCHANGED <<choices, inflight, storage, isProcessing, animating>>
    /\ held' = IF storage # <<>> /\ isValidGameState(storage[1]) THEN FALSE ELSE held

\* openSettings: the game screen is hidden and the setup screen shown; the
\* game goes on behind it
UIOpenSettings ==
    /\ Gesture
    /\ built > 0
    /\ screen' = "title"
    /\ effects' = <<>>
    /\ last' = Did("openSettings")
    /\ UNCHANGED <<gameState, choices, inflight, storage>>
    /\ UNCHANGED <<isProcessing, buttons, animating, earlier, built>>
    /\ UNCHANGED held

\* resetGame of every earlier pair, as the listeners of their GameUI run it
EarlierReset(f) ==
    [e \in Slots |-> [f[e] EXCEPT !.gameState = IdleState, !.buttons = <<>>]]

\* GameUI.resetGame: gameEngine.resetGame(), scene and choices emptied.
\* toTitle = TRUE: the listener of the back-to-title button of the error
\* popup, which shows the title screen first; every GameUI has registered
\* it, so every pair is reset and bgmManager.stop() is called once for
\* each GameUI.
UIResetGame(toTitle) ==
    /\ Gesture
    /\ built > 0
    /\ gameState' = IdleState
    /\ buttons' = <<>>
    /\ earlier' = IF toTitle THEN EarlierReset(earlier) ELSE NoButtons(earlier)
    /\ screen' = IF toTitle THEN "title" ELSE screen
    /\ effects' = IF toTitle THEN [k \in 1..built |-> "bgmStop"]
                  ELSE <<"bgmStop">>
    /\ last' = Did("resetGame")
    /\ UNCHANGED <<choices, inflight, storage, isProcessing, animating, built>>
    /\ held' = FALSE

\* GameUI.loadGame; it shows and hides no screen.  When the engine
\* returns a state, the next statement calls gameEngine.startBGM(), a method
\* GameEngine does not define: the handler ends with a TypeError after the
\* engine has installed the state, before updateDisplayFromState builds a
\* button and before speakText.  Without a valid record it alerts.
UILoadGame ==
    /\ Gesture
    /\ built > 0
    /\ screen' = screen
    /\ gameState' = LoadedState(gameState, storage)
    /\ buttons' = buttons
    /\ effects' = <<>>
    /\ last' = [Did("loadGame") EXCEPT
                  !.kind = IF storage # <<>> /\ isValidGameState(storage[1])
                           THEN "loaded" ELSE "null",
                  !.error = IF storage # <<>> /\ isValidGameState(storage[1])
                            THEN "startBGM is not a function" ELSE Undefined]
    /\ UNCHANGED <<choices, inflight, storage, isProcessing, animating, earlier,
                   built>>
    /\ held' = IF storage # <<>> /\ isValidGameState(storage[1]) THEN FALSE ELSE held

\* handleChoiceClick on the k-th choice button, up to its await
UIHandleChoiceClick(k) ==
    /\ Gesture
    /\ k \in 1..Len(buttons)
    /\ ~isProcessing
    /\ isProcessing' = TRUE
    /\ IssueChoice(buttons[k], "click")
    /\ UNCHANGED <<screen, buttons, animating, earlier, built>>
    /\ UNCHANGED held

\* a handleChoiceClick whose finally block does not release the guard
UIAnimationDoneKeepsGuard(j) ==
    /\ j \in 1..Len(animating)
    /\ buttons' = Ids(animating[j])
    /\ earlier' = NoButtons(earlier)
    /\ animating' = RemoveAt(animating, j)
    /\ effects' = <<>>
    /\ last' = Did("updateDisplay")
    /\ UNCHANGED <<gameState, choices, inflight, storage, screen, gestures, clientVars>>
    /\ UNCHANGED built
    /\ UNCHANGED isProcessing
    /\ UNCHANGED held

\* handleChoiceClick after animateSceneUpdate: updateDisplay(newChoices),
\* then the finally block
UIAnimationDone(j) ==
    /\ j \in 1..Len(animating)
    /\ buttons' = Ids(animating[j])
    /\ earlier' = NoButtons(earlier)
    /\ isProcessing' = FALSE
    /\ animating' = RemoveAt(animating, j)
    /\ effects' = <<>>
    /\ last' = Did("updateDisplay")
    /\ UNCHANGED <<gameState, choices, inflight, storage, screen, gestures, clientVars>>
    /\ UNCHANGED built
    /\ UNCHANGED held

\* the listeners of the save-and-quit button: saveAndBackToTitle of every
\* GameUI calls saveGame and resetGame of its engine and shows the title
\* screen.  A saveGame writes when its engine has a history and setItem
\* does not raise (its catch block logs), so the record the slot ends with
\* is the one of the last engine whose write went through.  Each resetGame
\* calls bgmManager.stop().  Before the first GameUI is built the button
\* has no listener that acts.
\* writer: the engine whose saveGame is the last to write the slot, 0 the
\* current engine, e the engine of slot e, -1 none (no engine has a
\* history, or every localStorage.setItem raised)
UISaveAndBackToTitle(writer) ==
    /\ Gesture
    /\ built > 0
    /\ writer = 0 => gameState.history # <<>>
    /\ writer \in Slots => earlier[writer].gameState.history # <<>>
    /\ storage' = IF writer = 0 THEN SavedStorage(gameState, storage)
                  ELSE IF writer \in Slots
                  THEN SavedStorage(earlier[writer].gameState, storage)
                  ELSE storage
    /\ gameState' = IdleState
    /\ buttons' = <<>>
    /\ earlier' = EarlierReset(earlier)
    /\ screen' = "title"
    /\ effects' = [k \in 1..built |-> "bgmStop"]
    /\ last' = Did("saveAndBackToTitle")
    /\ UNCHANGED <<choices, inflight, isProcessing, animating, built>>
    /\ held' = FALSE

----------------------------------------------------------------------------
(* The pairs of earlier start clicks: their requests settle, their timers  *)
(* fire and their buttons are clicked like those of the current pair       *)

\* the pair x after its i-th request settled: the engine holds gs and list,
\* and the waiting handler of its GameUI goes on as UISettle describes
InstanceSettle(x, i, gs, list, ok, newChoices) ==
    LET call == x.inflight[i]
        settled == [x EXCEPT !.gameState = gs, !.choices = list,
                             !.inflight = RemoveAt(x.inflight, i)]
    IN  IF call.ui = "start"
        THEN [settled EXCEPT !.isProcessing = FALSE,
                             !.buttons = IF ok THEN Ids(newChoices) ELSE @]
        ELSE IF ok
        THEN [settled EXCEPT !.animating = Append(@, newChoices),
                             !.buttons = IF call.choiceId = "restart"
                                         THEN <<>> ELSE @]
        ELSE [settled EXCEPT !.isProcessing = FALSE]

\* a step of the pair in slot e that leaves it as inst; written: its GameUI
\* wrote or emptied the choices container (updateDisplay after startGame
\* or after the animation, the clearing of a restart)
EarlierStep(e, inst, written, calls) ==
    /\ earlier' = [(IF written THEN NoButtons(earlier) ELSE earlier)
                      EXCEPT ![e] = inst]
    /\ buttons' = IF written THEN <<>> ELSE buttons
    /\ effects' = calls
    /\ last' = Did("earlierInstance")
    /\ UNCHANGED <<gameState, choices, inflight, storage, held>>
    /\ UNCHANGED <<isProcessing, screen, animating, built>>

EarlierStartGameSucceeds(e, i, p) ==
    /\ e \in Slots /\ i \in 1..Len(earlier[e].inflight)
    /\ earlier[e].inflight[i].op = "startGame"
    /\ EarlierStep(e, InstanceSettle(earlier[e], i, StartGameState(p),
                                     ChoicesOrEmpty(p), TRUE, ChoicesOrEmpty(p)),
                   TRUE, <<"speakText">>)
    /\ UNCHANGED <<gestures, clientVars>>

EarlierStartGameFails(e, i) ==
    /\ e \in Slots /\ i \in 1..Len(earlier[e].inflight)
    /\ earlier[e].inflight[i].op = "startGame"
    /\ EarlierStep(e, InstanceSettle(earlier[e], i, earlier[e].gameState,
                                     earlier[e].choices, FALSE, <<>>),
                   FALSE, <<>>)
    /\ UNCHANGED <<gestures, clientVars>>

EarlierMakeChoiceSucceeds(e, i, p) ==
    /\ e \in Slots /\ i \in 1..Len(earlier[e].inflight)
    /\ earlier[e].inflight[i].op = "makeChoice"
    /\ EarlierStep(e, InstanceSettle(earlier[e], i,
                                     ApplyPayload(earlier[e].gameState, p),
                                     ChoicesAfter(earlier[e].gameState, p), TRUE,
                                     ChoicesAfter(earlier[e].gameState, p)),
                   FALSE, ApplyEffects(earlier[e].gameState, p))
    /\ UNCHANGED <<gestures, clientVars>>

EarlierMakeChoiceFails(e, i) ==
    /\ e \in Slots /\ i \in 1..Len(earlier[e].inflight)
    /\ earlier[e].inflight[i].op = "makeChoice"
    /\ EarlierStep(e, InstanceSettle(earlier[e], i,
                                     Rollback(earlier[e].gameState),
                                     earlier[e].choices, FALSE,
                                     earlier[e].choices),
                   FALSE, <<>>)
    /\ UNCHANGED <<gestures, clientVars>>

\* handleChoiceClick of the GameUI in slot e after animateSceneUpdate:
\* updateDisplay(newChoices), then the finally block
EarlierAnimationDone(e, j) ==
    /\ e \in Slots /\ j \in 1..Len(earlier[e].animating)
    /\ EarlierStep(e, [earlier[e] EXCEPT
                          !.buttons = Ids(earlier[e].animating[j]),
                          !.isProcessing = FALSE,
                          !.animating = RemoveAt(@, j)],
                   TRUE, <<>>)
    /\ UNCHANGED <<gestures, clientVars>>

\* the pair x after handleChoiceClick(choiceId) of its GameUI ran up to the
\* await: makeChoice("restart") delegates to startGame, any other id
\* appends the action and issues the request
InstanceClick(x, choiceId) ==
    IF choiceId = "restart"
    THEN [x EXCEPT !.isProcessing = TRUE,
                   !.inflight = Append(@, Call("startGame", "restart", "click",
                                               generateInitialScenario,
                                               x.gameState, x.choices))]
    ELSE [x EXCEPT !.isProcessing = TRUE,
                   !.gameState = AppendAction(x.gameState, x.choices, choiceId),
                   !.inflight = Append(@,
                       Call("makeChoice", choiceId, "click",
                            ChoiceMessages(AppendAction(x.gameState, x.choices,
                                                        choiceId),
                                           x.choices, choiceId),
                            x.gameState, x.choices))]

\* a click on the k-th choice button while the container holds the buttons
\* of the GameUI in slot e: its handleChoiceClick looks at its own
\* isProcessing
EarlierHandleChoiceClick(e, k) ==
    /\ Gesture
    /\ e \in Slots /\ k \in 1..Len(earlier[e].buttons)
    /\ ~earlier[e].isProcessing
    /\ Len(earlier[e].inflight) < MaxInflight
    /\ earlier[e].buttons[k] # "restart" =>
           Len(earlier[e].gameState.history) < MaxHistory
    /\ EarlierStep(e, InstanceClick(earlier[e], earlier[e].buttons[k]), FALSE,
                   IF earlier[e].buttons[k] = "restart"
                   THEN <<"bgmPlay">> ELSE <<>>)

UIPayloads ==
    { Payload("s1", "continue", Undefined, TRUE, <<ChoiceA>>),
      Payload("s2", "gameover", "r1", FALSE, <<>>) }

TitleHandlers ==
    {"startGameFromTitle", "loadGameFromTitle", "saveSettingsAndReturnToGame"}

NextUI ==
    \/ UIInitializeGame
    \/ UILoadGame
    \/ UIMainLoadGame
    \/ UIOpenSettings
    \/ \E toTitle \in BOOLEAN : UIResetGame(toTitle)
    \/ \E k \in 1..Len(buttons) : UIHandleChoiceClick(k)
    \/ \E j \in 1..Len(animating) : UIAnimationDone(j)
    \/ \E writer \in -1..MaxEarlier : UISaveAndBackToTitle(writer)
    \/ \E handler \in TitleHandlers : UIClickOnTitle(handler)
    \/ \E i \in 1..Len(inflight), p \in UIPayloads : StartGameSucceeds(i, p)
    \/ \E i \in 1..Len(inflight) : StartGameFails(i, "transportError")
    \/ \E i \in 1..Len(inflight), p \in UIPayloads : MakeChoiceSucceeds(i, p)
    \/ \E i \in 1..Len(inflight) : MakeChoiceFails(i, "transportError")
    \/ \E e \in Slots : \E i \in 1..Len(earlier[e].inflight), p \in UIPayloads :
          EarlierStartGameSucceeds(e, i, p)
    \/ \E e \in Slots : \E i \in 1..Len(earlier[e].inflight) : EarlierStartGameFails(e, i)
    \/ \E e \in Slots : \E i \in 1..Len(earlier[e].inflight), p \in UIPayloads :
          EarlierMakeChoiceSucceeds(e, i, p)
    \/ \E e \in Slots : \E i \in 1..Len(earlier[e].inflight) : EarlierMakeChoiceFails(e, i)
    \/ \E e \in Slots : \E j \in 1..Len(earlier[e].animating) : EarlierAnimationDone(e, j)
    \/ \E e \in Slots : \E k \in 1..Len(earlier[e].buttons) :
          EarlierHandleChoiceClick(e, k)

SpecUI == Init /\ [][NextUI]_vars

\* the awaited engine call of a handler settles
UIEngineSettles ==
    \/ \E i \in 1..Len(inflight), p \in UIPayloads : StartGameSucceeds(i, p)
    \/ \E i \in 1..Len(inflight) : StartGameFails(i, "transportError")
    \/ \E i \in 1..Len(inflight), p \in UIPayloads : MakeChoiceSucceeds(i, p)
    \/ \E i \in 1..Len(inflight) : MakeChoiceFails(i, "transportError")

\* the two timers of animateSceneUpdate fire and the handler resumes
UIAnimationEnds == \E j \in 1..Len(animating) : UIAnimationDone(j)

\* the awaited engine call of a handler of the GameUI in slot e settles
EarlierEngineSettles(e) ==
    \/ \E i \in 1..Len(earlier[e].inflight), p \in UIPayloads :
          EarlierStartGameSucceeds(e, i, p)
    \/ \E i \in 1..Len(earlier[e].inflight) : EarlierStartGameFails(e, i)
    \/ \E i \in 1..Len(earlier[e].inflight), p \in UIPayloads :
          EarlierMakeChoiceSucceeds(e, i, p)
    \/ \E i \in 1..Len(earlier[e].inflight) : EarlierMakeChoiceFails(e, i)

\* the timers of an animateSceneUpdate of the GameUI in slot e fire
EarlierAnimationEnds(e) == \E j \in 1..Len(earlier[e].animating) : EarlierAnimationDone(e, j)

\* the UI when every awaited engine call settles and every timer fires
SpecUILive ==
    /\ Init
    /\ [][NextUI]_vars
    /\ WF_vars(UIEngineSettles)
    /\ WF_vars(UIAnimationEnds)
    /\ \A e \in Slots : WF_vars(EarlierEngineSettles(e))
    /\ \A e \in Slots : WF_vars(EarlierAnimationEnds(e))

----------------------------------------------------------------------------
(* GameEngine called directly by callers that do not wait for one another: *)
(* after startGame, makeChoice calls overlap                               *)

\* makeChoice with a non-restart id, issued while other makeChoice requests
\* may be outstanding
OverlappingMakeChoice(choiceId) ==
    /\ gameState.history # <<>>
    /\ \A i \in 1..Len(inflight) : inflight[i].op = "makeChoice"
    /\ IssueMakeChoice(choiceId, "none")
    /\ UNCHANGED <<uiVars, clientVars>>
    /\ UNCHANGED held

OverlapPayloads ==
    { Payload("s1", "continue", Undefined, TRUE, <<ChoiceA>>),
      Payload("s2", "continue", Undefined, TRUE, <<ChoiceA, ChoiceB>>) }

NextOverlap ==
    \/ StartGame
    \/ \E choiceId \in {"c1", "zz"} : OverlappingMakeChoice(choiceId)
    \/ \E i \in 1..Len(inflight), p \in OverlapPayloads : StartGameSucceeds(i, p)
    \/ \E i \in 1..Len(inflight) : StartGameFails(i, "transportError")
    \/ \E i \in 1..Len(inflight), p \in OverlapPayloads : MakeChoiceSucceeds(i, p)
    \/ \E i \in 1..Len(inflight) : MakeChoiceFails(i, "transportError")

SpecOverlap == Init /\ [][NextOverlap]_vars

----------------------------------------------------------------------------
(* GameEngine called directly by a caller that keeps the object it got     *)
(* from getGameState or loadGame and writes to it.  getGameState returns   *)
(* { ...this.gameState }: a new object whose history property is the       *)
(* engine's own array; loadGame returns this.gameState itself.  A write    *)
(* made right after the call, before the engine replaces its state object, *)
(* therefore lands in the engine's array.                                  *)

GetGameState ==
    /\ inflight = <<>>
    /\ effects' = <<>>
    /\ last' = [Did("getGameState") EXCEPT !.pre = gameState]
    /\ UNCHANGED <<gameState, choices, inflight, storage>>
    /\ UNCHANGED <<uiVars, clientVars>>
    /\ held' = TRUE

\* the caller still holds an object whose history is the engine's array:
\* getGameState and a successful loadGame hand one out, makeChoice pushes
\* and pops in place, and the engine parts with the array when it assigns a
\* new state object (startGame on success, resetGame, loadGame on success)
HoldsEngineHistory == held

\* how many entries the caller has in the history at a time
MaxCallerEntries == 1

CallerEntries(h) == Cardinality({k \in 1..Len(h) : h[k] = "caller entry"})

\* snapshot.history.push(entry)
CallerPushesHistory(entry) ==
    /\ HoldsEngineHistory
    /\ Len(gameState.history) < MaxHistory
    /\ CallerEntries(gameState.history) < MaxCallerEntries
    /\ gameState' = [gameState EXCEPT !.history = Append(gameState.history, entry)]
    /\ effects' = <<>>
    /\ last' = Did("callerMutation")
    /\ UNCHANGED <<choices, inflight, storage>>
    /\ UNCHANGED <<uiVars, clientVars>>
    /\ UNCHANGED held

\* snapshot.history.length = 0
CallerTruncatesHistory ==
    /\ HoldsEngineHistory
    /\ gameState.history # <<>>
    /\ gameState.currentStep < MaxHistory
    /\ gameState' = [gameState EXCEPT !.history = <<>>]
    /\ effects' = <<>>
    /\ last' = Did("callerMutation")
    /\ UNCHANGED <<choices, inflight, storage>>
    /\ UNCHANGED <<uiVars, clientVars>>
    /\ UNCHANGED held

SnapshotPayloads ==
    { Payload("s1", "continue", Undefined, TRUE, <<ChoiceA>>) }

NextSnapshot ==
    \/ StartGame
    \/ MakeChoice("c1")
    \/ SaveGame
    \/ LoadGame
    \/ GetGameState
    \/ CallerPushesHistory("caller entry")
    \/ CallerTruncatesHistory
    \/ \E i \in 1..Len(inflight), p \in SnapshotPayloads : StartGameSucceeds(i, p)
    \/ \E i \in 1..Len(inflight) : StartGameFails(i, "transportError")
    \/ \E i \in 1..Len(inflight), p \in SnapshotPayloads : MakeChoiceSucceeds(i, p)
    \/ \E i \in 1..Len(inflight) : MakeChoiceFails(i, "transportError")

SpecSnapshot == Init /\ [][NextSnapshot]_vars

----------------------------------------------------------------------------
(* Properties                                                              *)

\* the last step settled a makeChoice with a non-restart id
SettledChoice ==
    /\ last.op = "makeChoice"
    /\ last.choiceId # "restart"
    /\ last.kind \in {"returned", "thrown"}

\* the last step settled a makeChoice("restart")
SettledRestart ==
    /\ last.op = "makeChoice"
    /\ last.choiceId = "restart"
    /\ last.kind \in {"returned", "thrown"}

\* the settled call failed: the request failed or no object could be parsed
Failed == last.payload = NoPayload
Succeeded == last.payload \in Payloads

Has(seq, x) == \E k \in 1..Len(seq) : seq[k] = x

\* C1: when a makeChoice with a non-restart id fails, history, currentStep,
\* story, choices and gameStatus are what they were before the call.
RollbackRestoresState ==
    (SettledChoice /\ Failed) =>
        /\ gameState.history = last.pre.history
        /\ gameState.currentStep = last.pre.currentStep
        /\ gameState.story = last.pre.story
        /\ gameState.gameStatus = last.pre.gameStatus
        /\ gameState.choices = last.pre.choices
        /\ choices = last.preChoices

\* a makeChoice failed on a session that startGame opened and one turn advanced
RollbackWitness ==
    /\ SettledChoice /\ Failed
    /\ Len(gameState.history) = 3
    /\ gameState.currentStep = 1
    /\ gameState.story \in Stories

\* C2: in a session opened by a successful startGame and continued by
\* makeChoice calls one at a time, history.length = 2 * currentStep + 1
\* whenever no call is in progress, and a successful non-restart makeChoice
\* raises currentStep by 1 and history.length by 2.
HistoryLengthInvariant ==
    /\ (inflight = <<>> /\ gameState.history # <<>>) =>
          Len(gameState.history) = 2 * gameState.currentStep + 1
    /\ (SettledChoice /\ Succeeded) =>
          /\ gameState.currentStep = last.pre.currentStep + 1
          /\ Len(gameState.history) = Len(last.pre.history) + 2

\* two turns succeeded after startGame
HistoryLengthWitness ==
    /\ SettledChoice /\ Succeeded
    /\ inflight = <<>>
    /\ gameState.currentStep = 2
    /\ Len(gameState.history) = 5

\* C3, as claimed: a failure during makeChoice, whatever the id, is never
\* thrown to the caller; the call returns a bundle with a non-empty error.
MakeChoiceNeverThrows ==
    (last.op = "makeChoice" /\ last.kind \in {"returned", "thrown"} /\ Failed) =>
        /\ last.kind = "returned"
        /\ last.error \notin {Undefined, ""}

\* C3, amended: a failure during makeChoice with a non-restart id is never
\* thrown, the call returns a bundle with a non-empty error message; a
\* failure during makeChoice("restart") is thrown to the caller.
MakeChoiceFailureReporting ==
    /\ (SettledChoice /\ Failed) =>
          /\ last.kind = "returned"
          /\ last.error \notin {Undefined, ""}
          /\ last.error \notin FailureKinds
    /\ (SettledRestart /\ Failed) => last.kind = "thrown"

\* a makeChoice with a non-restart id failed after a startGame succeeded
MakeChoiceFailureWitness ==
    /\ SettledChoice /\ Failed
    /\ last.kind = "returned"
    /\ last.pre.history # <<>>

\* C4, as claimed: once gameStatus is gameover or gameclear, only a restart
\* (makeChoice("restart") or startGame) or resetGame makes it continue again.
TerminalIsAbsorbing ==
    [][(gameState.gameStatus \in TerminalStatuses
          /\ gameState'.gameStatus = "continue")
        => \/ last'.op = "resetGame"
           \/ last'.op = "startGame" /\ last'.kind = "returned"
           \/ last'.op = "makeChoice" /\ last'.choiceId = "restart"
                /\ last'.kind = "returned"]_vars

\* C5: a successful makeChoice("restart") leaves the state a fresh startGame
\* with the same payload produces, appends no action to history and sends
\* only the opening prompt pair.
RestartEqualsFreshStart ==
    (SettledRestart /\ Succeeded) =>
        /\ gameState.story = last.payload.story
        /\ gameState.history = <<last.payload.story>>
        /\ gameState.currentStep = 0
        /\ gameState.gameStatus = "continue"
        /\ gameState.gameResultDescription = Undefined
        /\ gameState.choices =
              (IF last.payload.hasChoices THEN last.payload.choices ELSE <<>>)
        /\ choices = gameState.choices
        /\ last.messages = generateInitialScenario

\* a restart succeeded from a game-over state
RestartWitness ==
    /\ SettledRestart /\ Succeeded
    /\ last.pre.gameStatus = "gameover"
    /\ Len(last.pre.history) = 3
    /\ gameState.currentStep = 0

\* C6: a successful makeChoice that receives a terminal payload sets
\* gameStatus and gameResultDescription from the payload, leaves exactly one
\* choice, with id "restart", appends the story to history and calls the
\* background-audio stop.
TerminalPayloadApplied ==
    (SettledChoice /\ Succeeded /\ last.payload.gameStatus \in TerminalStatuses) =>
        /\ gameState.gameStatus = last.payload.gameStatus
        /\ gameState.gameResultDescription =
              (IF last.payload.description = Undefined THEN ""
               ELSE last.payload.description)
        /\ Len(choices) = 1
        /\ choices[1].id = "restart"
        /\ gameState.choices = choices
        /\ last.newChoices = choices
        /\ Len(gameState.history) = Len(last.pre.history) + 2
        /\ gameState.history[Len(gameState.history)] = gameState.story
        /\ Has(effects, "bgmStop")

\* a terminal payload that carries choices of its own was applied
TerminalPayloadWitness ==
    /\ SettledChoice /\ Succeeded
    /\ last.payload.gameStatus = "gameclear"
    /\ last.payload.choices # <<>>
    /\ gameState.gameStatus = "gameclear"

\* C7: a startGame whose request or extraction fails throws to its caller
\* and installs nothing: the state is what it was before the call, and no
\* story in the state is anything but "" or a story some payload carried.
StartGameFailurePropagates ==
    /\ (last.op = "startGame" /\ last.error \in FailureKinds) =>
          /\ last.kind = "thrown"
          /\ gameState = last.pre
          /\ choices = last.preChoices
    /\ gameState.story \in Stories \cup {"", Undefined}

\* a startGame failed for lack of a JSON object, on a session that had a story
StartGameFailureWitness ==
    /\ last.op = "startGame"
    /\ last.error = "noJson"
    /\ last.kind = "thrown"
    /\ gameState.story \in Stories

\* C8, as claimed: while a startGame request is outstanding, and after a
\* startGame failed, the state is the reset shape.
StartGameResetsFirst ==
    /\ (\E i \in 1..Len(inflight) : inflight[i].op = "startGame") =>
          gameState = IdleState
    /\ (last.kind = "thrown" /\ inflight = <<>>) => gameState = IdleState

\* C9, as claimed: when a non-restart makeChoice fails, the returned scene
\* and choices are the story and choices of the getGameState() snapshot
\* taken right before the call.
FailureBundleEqualsSnapshot ==
    (SettledChoice /\ Failed) =>
        /\ last.scene = last.pre.story
        /\ last.newChoices = last.pre.choices

\* C10, as claimed: every record saveGame writes has
\* history.length = 2 * currentStep + 1.
PersistedHistoryComplete ==
    storage # <<>> =>
        Len(storage[1].history) = 2 * storage[1].currentStep + 1


\* C11, as claimed: with GameUI as the only caller at most one narrative
\* turn (startGame or makeChoice request) is in flight at any time.
AtMostOneTurnInFlight ==
    Len(inflight)
      + Cardinality({c \in Slots \X (1..MaxInflight) :
                        c[2] <= Len(earlier[c[1]].inflight)}) <= 1


\* a history entry that is a scene, not an action text
IsScene(x) == x \in Stories \cup {Undefined, Null, ""}

\* scene and action entries alternate, starting with a scene
Alternates(h) ==
    \A k \in 1..Len(h) : IsScene(h[k]) <=> (k % 2 = 1)

\* C12, as claimed: when makeChoice calls overlap and one fails, its
\* rollback removes that call's own action entry (the entry it appended
\* right after the history it found), and once every call has settled
\* history alternates scene and action entries with
\* history.length = 2 * currentStep + 1.
RollbackRemovesOwnEntry ==
    [][(/\ last'.op = "makeChoice"
        /\ last'.choiceId # "restart"
        /\ last'.kind = "returned"
        /\ last'.payload = NoPayload
        /\ Len(inflight') < Len(inflight))
       => /\ gameState'.history =
                RemoveAt(gameState.history, Len(last'.pre.history) + 1)
          /\ (inflight' = <<>> =>
                /\ Alternates(gameState'.history)
                /\ Len(gameState'.history) = 2 * gameState'.currentStep + 1)]_vars


\* C13, as claimed: nothing a caller does to the value getGameState or
\* loadGame returned changes the engine's state or the stored record.
SnapshotIsIsolated ==
    [][last'.op = "callerMutation" =>
          /\ gameState' = gameState
          /\ choices' = choices
          /\ storage' = storage]_vars


\* no choice of the list has the id
Unmatched(list, choiceId) == \A k \in 1..Len(list) : list[k].id # choiceId

\* C14: makeChoice with an id that matches no current choice raises nothing:
\* the request is issued with the fallback text derived from the id appended
\* to history, and a successful response commits the turn like any other.
UnmatchedChoiceProceeds ==
    /\ (/\ last.op = "makeChoice" /\ last.kind = "issued"
        /\ last.choiceId # "restart"
        /\ Unmatched(choices, last.choiceId)) =>
          /\ Len(inflight) = 1
          /\ gameState.history # <<>>
          /\ gameState.history[Len(gameState.history)] =
                last.choiceId \o " wo jikkou"
    /\ (SettledChoice /\ Succeeded /\ Unmatched(last.preChoices, last.choiceId)) =>
          /\ last.kind = "returned"
          /\ last.error = Undefined
          /\ gameState.history =
                last.pre.history
                \o <<last.choiceId \o " wo jikkou", gameState.story>>
          /\ gameState.currentStep = last.pre.currentStep + 1

\* a turn with the id "zz" succeeded while two other choices were current
UnmatchedChoiceWitness ==
    /\ SettledChoice /\ Succeeded
    /\ last.choiceId = "zz"
    /\ Len(last.preChoices) = 2
    /\ Len(gameState.history) = 3


----------------------------------------------------------------------------
(* Effectors that raise: bgmManager.play / stop, speakText                 *)

\* gameState when bgmManager.stop() raises in makeChoice: story, gameStatus
\* and gameResultDescription are already assigned, history.push(story) and
\* gameState.choices = this.choices are skipped, the catch block rolls back
StopThrowsState(gs, p) ==
    Rollback([gs EXCEPT !.story = StoryAfter(gs, p),
                        !.gameStatus = StatusAfter(gs, p),
                        !.gameResultDescription = OrElse(p.description, "")])

\* a terminal payload arrived and bgmManager.stop() raised inside the try
MakeChoiceStopThrows(i, p) ==
    /\ i \in 1..Len(inflight)
    /\ inflight[i].op = "makeChoice"
    /\ StatusAfter(gameState, p) \in TerminalStatuses
    /\ gameState' = StopThrowsState(gameState, p)
    /\ choices' = ChoicesAfter(gameState, p)
    /\ inflight' = RemoveAt(inflight, i)
    /\ effects' = <<"bgmStopThrows">>
    /\ last' = Outcome(inflight[i], "returned", StoryAfter(gameState, p),
                       ChoicesAfter(gameState, p), MakeChoiceErrorMessage, p)
    /\ UISettle(inflight[i], FALSE, ChoicesAfter(gameState, p))
    /\ UNCHANGED storage
    /\ UNCHANGED held

\* the speech effector failed inside speakText: its own catch logs the
\* error, the turn commits and returns as usual
MakeChoiceSpeakThrows(i, p) ==
    /\ i \in 1..Len(inflight)
    /\ inflight[i].op = "makeChoice"
    /\ gameState' = ApplyPayload(gameState, p)
    /\ choices' = ChoicesAfter(gameState, p)
    /\ inflight' = RemoveAt(inflight, i)
    /\ effects' = SubSeq(ApplyEffects(gameState, p), 1,
                         Len(ApplyEffects(gameState, p)) - 1)
                  \o <<"speakTextThrows">>
    /\ last' = Outcome(inflight[i], "returned", StoryAfter(gameState, p),
                       ChoicesAfter(gameState, p), Undefined, p)
    /\ UISettle(inflight[i], TRUE, ChoicesAfter(gameState, p))
    /\ UNCHANGED storage
    /\ UNCHANGED held

\* bgmManager.play() raised: it is called before the try of startGame, so
\* the call rejects before any request is made
StartGamePlayThrows ==
    /\ inflight = <<>>
    /\ effects' = <<"bgmPlayThrows">>
    /\ last' = [NoOutcome EXCEPT !.op = "startGame", !.kind = "thrown",
                                 !.error = "effectorError",
                                 !.pre = gameState, !.preChoices = choices]
    /\ UNCHANGED <<gameState, choices, inflight, storage>>
    /\ UNCHANGED <<uiVars, clientVars>>
    /\ UNCHANGED held

\* makeChoice("restart") while bgmManager.play() raises: the delegation to
\* startGame is outside the try of makeChoice, so the call rejects
MakeChoiceRestartPlayThrows ==
    /\ inflight = <<>>
    /\ effects' = <<"bgmPlayThrows">>
    /\ last' = [NoOutcome EXCEPT !.op = "makeChoice", !.kind = "thrown",
                                 !.choiceId = "restart",
                                 !.error = "effectorError",
                                 !.pre = gameState, !.preChoices = choices]
    /\ UNCHANGED <<gameState, choices, inflight, storage>>
    /\ UNCHANGED <<uiVars, clientVars>>
    /\ UNCHANGED held

\* resetGame while bgmManager.stop() raises: the idle state object is
\* already installed when the exception leaves resetGame
ResetGameStopThrows ==
    /\ inflight = <<>>
    /\ gameState' = IdleState
    /\ effects' = <<"bgmStopThrows">>
    /\ last' = [NoOutcome EXCEPT !.op = "resetGame", !.kind = "thrown",
                                 !.error = "effectorError",
                                 !.pre = gameState, !.preChoices = choices]
    /\ UNCHANGED <<choices, inflight, storage>>
    /\ UNCHANGED <<uiVars, clientVars>>
    /\ held' = FALSE

\* the speech effector failed in the speakText call of startGame: the call
\* is not awaited and speakText catches the error itself
StartGameSpeakThrows(i, p) ==
    /\ i \in 1..Len(inflight)
    /\ inflight[i].op = "startGame"
    /\ gameState' = StartGameState(p)
    /\ choices' = ChoicesOrEmpty(p)
    /\ inflight' = RemoveAt(inflight, i)
    /\ effects' = <<"speakTextThrows">>
    /\ last' = Outcome(inflight[i], "returned", p.story, ChoicesOrEmpty(p),
                       Undefined, p)
    /\ UISettle(inflight[i], TRUE, ChoicesOrEmpty(p))
    /\ UNCHANGED storage
    /\ held' = FALSE

EffectorPayloads ==
    { Payload("s1", "continue", Undefined, TRUE, <<ChoiceA, ChoiceB>>),
      Payload("s2", "gameover", "r1", FALSE, <<>>),
      Payload("s2", "gameclear", Undefined, TRUE, <<ChoiceA>>) }

NextEffector ==
    \/ StartGame
    \/ StartGamePlayThrows
    \/ \E choiceId \in ChoiceIds : MakeChoice(choiceId)
    \/ MakeChoiceRestartPlayThrows
    \/ ResetGame
    \/ ResetGameStopThrows
    \/ \E i \in 1..Len(inflight), p \in EffectorPayloads : StartGameSucceeds(i, p)
    \/ \E i \in 1..Len(inflight), p \in EffectorPayloads : StartGameSpeakThrows(i, p)
    \/ \E i \in 1..Len(inflight), kind \in FailureKinds : StartGameFails(i, kind)
    \/ \E i \in 1..Len(inflight), p \in EffectorPayloads : MakeChoiceSucceeds(i, p)
    \/ \E i \in 1..Len(inflight), p \in EffectorPayloads : MakeChoiceStopThrows(i, p)
    \/ \E i \in 1..Len(inflight), p \in EffectorPayloads : MakeChoiceSpeakThrows(i, p)
    \/ \E i \in 1..Len(inflight), kind \in FailureKinds : MakeChoiceFails(i, kind)

SpecEffector == Init /\ [][NextEffector]_vars

\* C15: a failure raised by bgmManager.play / stop or by the speech effector
\* never changes what the operation returns or the narrative state: startGame
\* does not reject because of it, and a makeChoice whose payload was parsed
\* returns without an error and commits the payload, action and story
\* appended to history.
EffectorFailureIsIsolated ==
    /\ Has(effects, "bgmPlayThrows") => last.kind # "thrown"
    /\ (SettledChoice /\ Succeeded) =>
          /\ last.error = Undefined
          /\ gameState =
                ApplyPayload(AppendAction(last.pre, last.preChoices,
                                          last.choiceId), last.payload)
          /\ choices = gameState.choices


\* C16: in every reachable state gameStatus is one of the three values of
\* GameStatus (continue, gameover, gameclear), whatever gameStatus a model
\* payload carries.
StatusIsKnown == gameState.gameStatus \in GameStatus


\* C17: after a successful startGame, whenever no call is in progress and
\* gameStatus is continue, the current choices are non-empty, so the player
\* always has an action to select while the game continues.
ChoicesWhileContinuing ==
    (/\ inflight = <<>>
     /\ gameState.history # <<>>
     /\ gameState.gameStatus = "continue") =>
        /\ choices # <<>>
        /\ gameState.choices # <<>>


\* C18: when makeChoice(id) fails and the caller calls makeChoice(id) again
\* and the model answers with payload P, the resulting story, history,
\* currentStep, gameStatus and choices are those the first attempt would
\* have produced had it succeeded with P: the failed attempt leaves no trace
\* and the id resolves to the same action text.
RetryEqualsFirstAttempt ==
    (SettledChoice /\ Succeeded /\ last.retryOf # <<>>) =>
        LET first == last.retryOf[1]
            asked == AppendAction(first.gameState, first.choices, last.choiceId)
        IN  /\ gameState = ApplyPayload(asked, last.payload)
            /\ choices = ChoicesAfter(asked, last.payload)
            /\ last.scene = StoryAfter(asked, last.payload)
            /\ last.newChoices = choices
            /\ last.error = Undefined

\* the retry of a failed makeChoice("c1") succeeded in a started game
RetryWitness ==
    /\ SettledChoice /\ Succeeded
    /\ last.retryOf # <<>>
    /\ last.choiceId = "c1"
    /\ Len(gameState.history) = 3
    /\ gameState.currentStep = 1


\* C19: saveGame never throws and changes nothing but the storage slot.
\* With an empty history the slot keeps what it held; with a non-empty
\* history, and storage accepting the write, the slot is overwritten with
\* the whole current state as JSON carries it (an undefined history element
\* comes back null).
SaveGameFrame ==
    [][last'.op = "saveGame" =>
        /\ last'.kind = "done"
        /\ gameState' = gameState /\ choices' = choices
        /\ inflight' = inflight
        /\ IF gameState.history = <<>> \/ Has(effects', "setItemThrows")
           THEN storage' = storage
           ELSE /\ Len(storage') = 1
                /\ [storage'[1] EXCEPT !.history = gameState.history] = gameState
                /\ Len(storage'[1].history) = Len(gameState.history)
                /\ \A k \in 1..Len(gameState.history) :
                      storage'[1].history[k] =
                         IF gameState.history[k] = Undefined
                         THEN Null ELSE gameState.history[k]]_vars

\* saveGame was called on an empty history while an earlier record of a
\* started game was in the slot, and the record is still there
SaveGameWitness ==
    /\ last.op = "saveGame"
    /\ gameState.history = <<>>
    /\ storage # <<>>
    /\ Len(storage[1].history) >= 3


\* a value JSON.parse returns as a string
IsText(x) == x \notin {Undefined, Null}

\* the structural check as the specification words it
WellFormedRecord(r) ==
    /\ IsText(r.story)
    /\ \A k \in 1..Len(r.history) : IsText(r.history[k])
    /\ r.gameStatus \in GameStatus

\* C20: loadGame never throws and returns null, leaving the engine state
\* unchanged, whenever the stored record is missing or fails the structural
\* check: story not text, history not a sequence whose every element is
\* text, or gameStatus not one of the three tags.
LoadGameRejectsMalformed ==
    [][(/\ last'.op = "loadGame"
        /\ (storage = <<>> \/ ~WellFormedRecord(storage[1]))) =>
            /\ last'.kind = "null"
            /\ gameState' = gameState]_vars


\* C21: resetGame sets gameState to the idle shape (story "", history empty,
\* currentStep 0, gameStatus continue, choices empty), calls the
\* background-audio stop, and leaves the stored session record unchanged.
ResetGameFrame ==
    [][last'.op = "resetGame" =>
        /\ gameState'.story = ""
        /\ gameState'.history = <<>>
        /\ gameState'.currentStep = 0
        /\ gameState'.gameStatus = "continue"
        /\ gameState'.choices = <<>>
        /\ gameState'.gameResultDescription = Undefined
        /\ Has(effects', "bgmStop")
        /\ storage' = storage]_vars

\* resetGame was called on a finished game whose record is in the slot
ResetGameWitness ==
    /\ last.op = "resetGame"
    /\ gameState.history = <<>>
    /\ storage # <<>>
    /\ storage[1].gameStatus = "gameover"
    /\ Len(storage[1].history) >= 3


----------------------------------------------------------------------------
(* Extraction of the payload from a model response (startGame, makeChoice) *)
(* A response text is a sequence of tokens, each standing for the literal  *)
(* text beside it:                                                         *)
(*   "{"  {          "}"  }          "m"  "s":"a"        "k"  "c":         *)
(*   "x"  note       "<thinking>"    "</thinking>"                         *)

MaxText == 5

Tokens == {"{", "}", "m", "k", "x", "<thinking>", "</thinking>"}

Texts == UNION { [1..n -> Tokens] : n \in 0..MaxText }

\* index of the first tok in t at or after from, 0 when there is none
IndexOf(t, tok, from) ==
    IF \E i \in from..Len(t) : t[i] = tok
    THEN CHOOSE i \in from..Len(t) :
            t[i] = tok /\ \A j \in from..(i - 1) : t[j] # tok
    ELSE 0

\* index of the last tok in t, 0 when there is none
LastIndexOf(t, tok) ==
    IF \E i \in 1..Len(t) : t[i] = tok
    THEN CHOOSE i \in 1..Len(t) :
            t[i] = tok /\ \A j \in (i + 1)..Len(t) : t[j] # tok
    ELSE 0

RECURSIVE StripThinking(_)
\* text.replace(/<thinking>[\s\S]*?<\/thinking>/g, ''): each opening tag
\* that has a closing tag after it is removed up to the first such closing
\* tag; an opening tag that is never closed stays
StripThinking(t) ==
    IF t = <<>> THEN <<>>
    ELSE IF t[1] = "<thinking>" /\ IndexOf(t, "</thinking>", 2) # 0
    THEN StripThinking(SubSeq(t, IndexOf(t, "</thinking>", 2) + 1, Len(t)))
    ELSE <<t[1]>> \o StripThinking(Tail(t))

\* a match that runs to the end of the text when no closing brace follows
MatchObjectToEnd(t) ==
    IF IndexOf(t, "{", 1) = 0 THEN <<>>
    ELSE IF LastIndexOf(t, "}") > IndexOf(t, "{", 1)
    THEN SubSeq(t, IndexOf(t, "{", 1), LastIndexOf(t, "}"))
    ELSE SubSeq(t, IndexOf(t, "{", 1), Len(t))

\* text.match(/\{[\s\S]*\}/): from the first opening brace to the last
\* closing brace after it; <<>> when there is no match
MatchObject(t) ==
    IF IndexOf(t, "{", 1) # 0 /\ LastIndexOf(t, "}") > IndexOf(t, "{", 1)
    THEN SubSeq(t, IndexOf(t, "{", 1), LastIndexOf(t, "}"))
    ELSE <<>>

RECURSIVE IsObject(_)
\* the token sequences JSON.parse accepts: {} , {"s":"a"} , {"c":<object>}
IsObject(t) ==
    /\ Len(t) >= 2
    /\ t[1] = "{"
    /\ t[Len(t)] = "}"
    /\ LET inner == SubSeq(t, 2, Len(t) - 1)
       IN  \/ inner = <<>>
           \/ inner = <<"m">>
           \/ /\ Len(inner) >= 3
              /\ inner[1] = "k"
              /\ IsObject(Tail(inner))

\* JSON.parse: the object, written as the text that serializes it, or the
\* SyntaxError
JsonParse(t) ==
    IF IsObject(t) THEN [kind |-> "object", value |-> t]
    ELSE [kind |-> "error", value |-> "invalidJson"]

InitExtraction ==
    /\ SessionInit
    /\ bgm = "idle"
    /\ extraction \in { [stage |-> "response", text |-> t, work |-> t,
                         result |-> [kind |-> "pending", value |-> <<>>]] :
                        t \in Texts }
    /\ gemini = "idle" /\ stream = "idle" /\ http = "idle" /\ voice = "idle"

\* response.replace(...)
ExtractStrip ==
    /\ extraction.stage = "response"
    /\ extraction' = [extraction EXCEPT !.stage = "stripped",
                                        !.work = StripThinking(extraction.text)]
    /\ UNCHANGED <<engineVars, uiVars, bgm, gemini, stream, http, voice>>

\* withoutResult.match(...); no match throws 'Response does not contain
\* valid JSON'
ExtractMatch ==
    /\ extraction.stage = "stripped"
    /\ extraction' =
          IF MatchObject(extraction.work) = <<>>
          THEN [extraction EXCEPT !.stage = "done",
                                  !.result = [kind |-> "error",
                                              value |-> "noJson"]]
          ELSE [extraction EXCEPT !.stage = "matched",
                                  !.work = MatchObject(extraction.work)]
    /\ UNCHANGED <<engineVars, uiVars, bgm, gemini, stream, http, voice>>

\* JSON.parse(jsonMatch[0])
ExtractParse ==
    /\ extraction.stage = "matched"
    /\ extraction' = [extraction EXCEPT !.stage = "done",
                                        !.result = JsonParse(extraction.work)]
    /\ UNCHANGED <<engineVars, uiVars, bgm, gemini, stream, http, voice>>

NextExtraction ==
    \/ ExtractStrip
    \/ ExtractMatch
    \/ ExtractParse

SpecExtraction == InitExtraction /\ [][NextExtraction]_vars

\* prose and complete annotation spans: every opening tag is closed and no
\* closing tag is left over
IsWrapping(w) ==
    \A i \in 1..Len(StripThinking(w)) :
        StripThinking(w)[i] \notin {"<thinking>", "</thinking>"}

\* a serialized payload: an object that has a member
IsPayloadText(t) == IsObject(t) /\ \E i \in 1..Len(t) : t[i] = "m"

\* C22: a text made of the serialization of a well-formed payload wrapped in
\* any number of annotation spans and any surrounding prose is extracted
\* (strip the spans, take the first opening brace to the last closing brace,
\* parse) to the original payload.
ExtractionRoundTrip ==
    extraction.stage = "done" =>
        \A i \in 1..Len(extraction.text), j \in 1..Len(extraction.text) :
            (/\ i < j
             /\ IsPayloadText(SubSeq(extraction.text, i, j))
             /\ IsWrapping(SubSeq(extraction.text, 1, i - 1))
             /\ IsWrapping(SubSeq(extraction.text, j + 1,
                                  Len(extraction.text)))) =>
                extraction.result =
                    [kind |-> "object", value |-> SubSeq(extraction.text, i, j)]


\* the text holds an opening brace with a closing brace somewhere after it
HasSpan(t) ==
    \E i \in 1..Len(t), j \in 1..Len(t) : i < j /\ t[i] = "{" /\ t[j] = "}"

NoJsonError == [kind |-> "error", value |-> "noJson"]
InvalidJsonError == [kind |-> "error", value |-> "invalidJson"]

\* C23 as stated: a text with no {...} span fails with the "no JSON found"
\* error, and a text containing `{malformed` (an opening brace followed by
\* text that is not JSON) fails with the different "invalid JSON" error.
ExtractionFailuresAsStated ==
    extraction.stage = "done" =>
        /\ ~HasSpan(extraction.text) => extraction.result = NoJsonError
        /\ (\E i \in 1..(Len(extraction.text) - 1) :
                extraction.text[i] = "{" /\ extraction.text[i + 1] = "x") =>
              extraction.result = InvalidJsonError

\* C23, amended: once the annotation spans are stripped, a text with no
\* {...} span fails with the "no JSON found" error, `{malformed` without a
\* closing brace among them; a text whose span from the first opening brace
\* to the last closing brace is not a JSON object fails with the "invalid
\* JSON" error, which is a different error.
ExtractionFailuresDistinct ==
    extraction.stage = "done" =>
        LET s == StripThinking(extraction.text)
        IN  /\ ~HasSpan(s) => extraction.result = NoJsonError
            /\ extraction.text = <<"{", "x">> => extraction.result = NoJsonError
            /\ \A i \in 1..Len(s), j \in 1..Len(s) :
                  (/\ i < j
                   /\ s[i] = "{" /\ \A q \in 1..(i - 1) : s[q] # "{"
                   /\ s[j] = "}" /\ \A q \in (j + 1)..Len(s) : s[q] # "}"
                   /\ ~IsObject(SubSeq(s, i, j))) =>
                      extraction.result = InvalidJsonError
            /\ NoJsonError # InvalidJsonError

\* prose, then a brace span that is not JSON, was rejected by JSON.parse
ExtractionFailureWitness ==
    /\ extraction.stage = "done"
    /\ extraction.text = <<"x", "{", "x", "}">>
    /\ extraction.result = InvalidJsonError


----------------------------------------------------------------------------
(* GeminiClient.transformMessagesToGemini                                  *)

MaxTurns == 4

Roles == {"system", "user", "assistant"}

TurnText == <<"t1", "t2", "t3", "t4", "t5", "t6">>

\* turn lists; the content of the turn at position i is the text TurnText[i]
TurnLists ==
    UNION { { [i \in 1..n |-> [role |-> r[i], content |-> <<TurnText[i]>>]] :
              r \in [1..n -> Roles] } : n \in 0..MaxTurns }

InitGemini ==
    /\ SessionInit
    /\ bgm = "idle"
    /\ gemini \in { [messages |-> m, next |-> 1, systemPrompt |-> <<>>,
                     geminiContents |-> <<>>] : m \in TurnLists }
    /\ extraction = "idle" /\ stream = "idle" /\ http = "idle" /\ voice = "idle"

\* forEach reaches a system turn: systemPrompt = msg.content + '\n\n'
GeminiVisitSystem ==
    /\ gemini.next <= Len(gemini.messages)
    /\ gemini.messages[gemini.next].role = "system"
    /\ gemini' = [gemini EXCEPT
                    !.next = @ + 1,
                    !.systemPrompt =
                        gemini.messages[gemini.next].content \o <<"\n\n">>]
    /\ UNCHANGED <<engineVars, uiVars, bgm, extraction, stream, http, voice>>

\* forEach reaches a user turn: it takes systemPrompt as a prefix only when
\* nothing was pushed before it
GeminiVisitUser ==
    /\ gemini.next <= Len(gemini.messages)
    /\ gemini.messages[gemini.next].role = "user"
    /\ gemini' = [gemini EXCEPT
                    !.next = @ + 1,
                    !.geminiContents = Append(@,
                        [role |-> "user",
                         text |-> IF Len(gemini.geminiContents) = 0
                                  THEN gemini.systemPrompt
                                       \o gemini.messages[gemini.next].content
                                  ELSE gemini.messages[gemini.next].content])]
    /\ UNCHANGED <<engineVars, uiVars, bgm, extraction, stream, http, voice>>

\* forEach reaches an assistant turn: pushed with the role model
GeminiVisitAssistant ==
    /\ gemini.next <= Len(gemini.messages)
    /\ gemini.messages[gemini.next].role = "assistant"
    /\ gemini' = [gemini EXCEPT
                    !.next = @ + 1,
                    !.geminiContents = Append(@,
                        [role |-> "model",
                         text |-> gemini.messages[gemini.next].content])]
    /\ UNCHANGED <<engineVars, uiVars, bgm, extraction, stream, http, voice>>

NextGemini ==
    \/ GeminiVisitSystem
    \/ GeminiVisitUser
    \/ GeminiVisitAssistant

SpecGemini == InitGemini /\ [][NextGemini]_vars

\* the positions of the turns of m that are not system turns, in order
RECURSIVE NonSystem(_, _)
NonSystem(m, i) ==
    IF i > Len(m) THEN <<>>
    ELSE IF m[i].role = "system" THEN NonSystem(m, i + 1)
    ELSE <<i>> \o NonSystem(m, i + 1)

\* C24: for a turn list that begins with its one system turn and holds a
\* user turn, the transformed list has no system role, keeps the other
\* turns in order with user as user and assistant as model, and the text of
\* its first user turn is the system content followed by that turn's
\* content; so for the makeChoice conversation [system, assistant, user, ...].
GeminiFoldsSystemPrompt ==
    LET m == gemini.messages
        out == gemini.geminiContents
        kept == NonSystem(m, 1)
    IN  (/\ gemini.next > Len(m)
         /\ Len(m) >= 2
         /\ m[1].role = "system"
         /\ \A i \in 2..Len(m) : m[i].role # "system"
         /\ \E i \in 2..Len(m) : m[i].role = "user") =>
            /\ Len(out) = Len(kept)
            /\ \A k \in 1..Len(out) :
                  /\ out[k].role =
                        IF m[kept[k]].role = "user" THEN "user" ELSE "model"
                  /\ LET first == \A q \in 1..(k - 1) : out[q].role # "user"
                     IN  IF out[k].role = "user" /\ first
                         THEN /\ Len(out[k].text) >
                                    Len(m[1].content) + Len(m[kept[k]].content) - 1
                              /\ SubSeq(out[k].text, 1, Len(m[1].content)) =
                                    m[1].content
                              /\ SubSeq(out[k].text,
                                        Len(out[k].text)
                                          - Len(m[kept[k]].content) + 1,
                                        Len(out[k].text)) = m[kept[k]].content
                         ELSE out[k].text = m[kept[k]].content


----------------------------------------------------------------------------
(* LMStudioClient.streamResponse: the read loop                            *)
(* A body is a sequence of tokens, each standing for the literal text      *)
(* beside it:                                                              *)
(*   "da" "ta: "   the two halves of `data: `       "\n"   the newline     *)
(*   "{"   {"choices":[{"delta":{         "}"   }}]}                       *)
(*   "a"   "content":"a"      "b"   "content":"b"                          *)
(*   "[DONE]"                 "x"   : keep-alive                           *)

MaxLines == 3

DataLine(c) == <<"da", "ta: ", "{", c, "}">>
EmptyDeltaLine == <<"da", "ta: ", "{", "}">>
DoneLine == <<"da", "ta: ", "[DONE]">>
MalformedLine == <<"da", "ta: ", "{", "a">>
BlankLine == <<>>
CommentLine == <<"x">>

StreamLines ==
    { DataLine("a"), DataLine("b"), EmptyDeltaLine, DoneLine, MalformedLine,
      BlankLine, CommentLine }

RECURSIVE JoinLines(_)
\* the body of newline-terminated lines
JoinLines(lines) ==
    IF lines = <<>> THEN <<>>
    ELSE lines[1] \o <<"\n">> \o JoinLines(Tail(lines))

RECURSIVE SplitLines(_)
\* buffer.split('\n')
SplitLines(b) ==
    IF IndexOf(b, "\n", 1) = 0 THEN <<b>>
    ELSE <<SubSeq(b, 1, IndexOf(b, "\n", 1) - 1)>>
         \o SplitLines(SubSeq(b, IndexOf(b, "\n", 1) + 1, Len(b)))

\* a read loop that keeps no partial line between reads
RemainderDropped(b) == <<>>

\* buffer = lines.pop() || '': what follows the last newline
Remainder(b) == SplitLines(b)[Len(SplitLines(b))]

\* the lines the for loop visits: all but the popped one
CompleteLines(b) == SubSeq(SplitLines(b), 1, Len(SplitLines(b)) - 1)

\* a parser that takes the content out of a fragment that was cut short
DeltaContentOfCutFragment(d) ==
    IF Len(d) >= 2 /\ d[1] = "{" /\ d[2] \in {"a", "b"} THEN <<d[2]>>
    ELSE <<>>

\* JSON.parse(dataStr) and chunk.choices[0]?.delta.content || '': the content
\* as a list of at most one token; a fragment that does not parse is caught
\* and skipped, an empty delta has no content
DeltaContent(d) ==
    IF Len(d) = 3 /\ d[1] = "{" /\ d[2] \in {"a", "b"} /\ d[3] = "}"
    THEN <<d[2]>>
    ELSE <<>>

\* one pass of the for loop body: blank lines, lines without the `data: `
\* prefix and the [DONE] line are skipped
LineContent(line) ==
    IF line = <<>> THEN <<>>
    ELSE IF Len(line) >= 2 /\ line[1] = "da" /\ line[2] = "ta: "
    THEN IF SubSeq(line, 3, Len(line)) = <<"[DONE]">> THEN <<>>
         ELSE DeltaContent(SubSeq(line, 3, Len(line)))
    ELSE <<>>

RECURSIVE Contents(_)
\* what the for loop appends to fullContent and passes to onToken
Contents(lines) ==
    IF lines = <<>> THEN <<>>
    ELSE LineContent(lines[1]) \o Contents(Tail(lines))

Bodies == UNION { [1..n -> StreamLines] : n \in 0..MaxLines }

InitStream ==
    /\ SessionInit
    /\ bgm = "idle"
    /\ stream \in { [lines |-> l, body |-> JoinLines(l), pos |-> 0,
                     buffer |-> <<>>, fullContent |-> <<>>, tokens |-> <<>>,
                     cutLine |-> FALSE, state |-> "reading"] : l \in Bodies }
    /\ extraction = "idle" /\ gemini = "idle" /\ http = "idle" /\ voice = "idle"

\* a read that appends to fullContent and never calls onToken
StreamReadWithoutCallback(n) ==
    /\ stream.state = "reading"
    /\ n >= 1
    /\ stream.pos + n <= Len(stream.body)
    /\ LET buf == stream.buffer
                  \o SubSeq(stream.body, stream.pos + 1, stream.pos + n)
       IN  stream' = [stream EXCEPT
                !.pos = @ + n,
                !.buffer = Remainder(buf),
                !.fullContent = @ \o Contents(CompleteLines(buf)),
                !.cutLine = @ \/ (Remainder(buf) # <<>>)]
    /\ UNCHANGED <<engineVars, uiVars, bgm, extraction, gemini, http, voice>>

\* reader.read() yields the next n tokens of the body
StreamRead(n) ==
    /\ stream.state = "reading"
    /\ n >= 1
    /\ stream.pos + n <= Len(stream.body)
    /\ LET buf == stream.buffer
                  \o SubSeq(stream.body, stream.pos + 1, stream.pos + n)
       IN  stream' = [stream EXCEPT
                !.pos = @ + n,
                !.buffer = Remainder(buf),
                !.fullContent = @ \o Contents(CompleteLines(buf)),
                !.tokens = @ \o Contents(CompleteLines(buf)),
                !.cutLine = @ \/ (Remainder(buf) # <<>>)]
    /\ UNCHANGED <<engineVars, uiVars, bgm, extraction, gemini, http, voice>>

\* reader.read() yields done: the loop ends and fullContent is returned
StreamDone ==
    /\ stream.state = "reading"
    /\ stream.pos = Len(stream.body)
    /\ stream' = [stream EXCEPT !.state = "returned"]
    /\ UNCHANGED <<engineVars, uiVars, bgm, extraction, gemini, http, voice>>

NextStream ==
    \/ \E n \in 1..(MaxLines * 6) : StreamRead(n)
    \/ StreamDone

SpecStream == InitStream /\ [][NextStream]_vars

\* a body whose last line is not terminated by a newline
InitStreamTail ==
    /\ SessionInit
    /\ bgm = "idle"
    /\ stream \in { [lines |-> l,
                     body |-> SubSeq(JoinLines(l), 1, Len(JoinLines(l)) - 1),
                     pos |-> 0, buffer |-> <<>>, fullContent |-> <<>>,
                     tokens |-> <<>>, cutLine |-> FALSE,
                     state |-> "reading"] : l \in Bodies \ {<<>>} }
    /\ extraction = "idle" /\ gemini = "idle" /\ http = "idle" /\ voice = "idle"

SpecStreamTail == InitStreamTail /\ [][NextStream]_vars

RECURSIVE ContentsOfBody(_)
\* the contents of the well-formed `data: {...}` lines of a body, in order
ContentsOfBody(lines) ==
    IF lines = <<>> THEN <<>>
    ELSE (IF lines[1] \in {DataLine("a"), DataLine("b")}
          THEN <<lines[1][4]>> ELSE <<>>)
         \o ContentsOfBody(Tail(lines))

\* C25: whatever the read boundaries, line ends or the middle of a line, the
\* returned string is the in-order concatenation of the contents of the
\* `data: {...}` lines of the body; blank lines and `data: [DONE]` add
\* nothing.
StreamIndependentOfReads ==
    stream.state = "returned" =>
        /\ stream.fullContent = ContentsOfBody(stream.lines)
        /\ stream.buffer = <<>>

\* a body of two fragments and the terminator was returned after a read
\* that ended in the middle of a line
StreamWitness ==
    /\ stream.state = "returned"
    /\ stream.cutLine
    /\ stream.lines = <<DataLine("a"), DataLine("b"), DoneLine>>
    /\ stream.fullContent = <<"a", "b">>

\* C26: a malformed `data:` fragment is skipped without failing the call:
\* the returned string is the concatenation of the contents of the
\* well-formed fragments before and after it, and onToken is called for
\* these only.
MalformedFragmentSkipped ==
    \A k \in 1..Len(stream.lines) :
        (stream.lines[k] = MalformedLine /\ stream.pos = Len(stream.body)) =>
            /\ stream.state \in {"reading", "returned"}
            /\ stream.fullContent =
                  ContentsOfBody(SubSeq(stream.lines, 1, k - 1))
                  \o ContentsOfBody(SubSeq(stream.lines, k + 1,
                                           Len(stream.lines)))
            /\ stream.tokens = stream.fullContent

\* a malformed fragment between two well-formed ones
MalformedFragmentWitness ==
    /\ stream.state = "returned"
    /\ stream.lines = <<DataLine("a"), MalformedLine, DataLine("b")>>
    /\ stream.tokens = <<"a", "b">>


----------------------------------------------------------------------------
(* sendMessage against a backend that answers with an HTTP status          *)

Statuses == {200, 201, 400, 401, 404, 429, 500, 503}
\* "completion" stands for a body that is the JSON of a completion; the
\* other texts are not JSON
BodyTexts == {"", "quota exceeded", "not found", "completion"}

\* response.json() succeeds and the result has the shape the client reads
IsCompletionJson(b) == b = "completion"

\* LMStudioClient without and with onToken, GeminiClient
Modes == {"lmstudio", "lmstudioStream", "gemini"}

\* response.ok
Ok(status) == status >= 200 /\ status <= 299

InitHttp ==
    /\ SessionInit
    /\ bgm = "idle"
    /\ http \in { [mode |-> m, status |-> s, bodyText |-> b,
                   stage |-> "called", fetches |-> 0,
                   error |-> [wrapper |-> "none", status |-> 0, body |-> <<>>]] :
                  m \in Modes, s \in Statuses, b \in BodyTexts }
    /\ extraction = "idle" /\ gemini = "idle" /\ stream = "idle" /\ voice = "idle"

\* sendMessage issues its fetch and the response arrives
HttpFetch ==
    /\ http.stage = "called"
    /\ http' = [http EXCEPT !.stage = "responded", !.fetches = @ + 1]
    /\ UNCHANGED <<engineVars, uiVars, bgm, extraction, gemini, stream, voice>>

\* getCompletion: !response.ok throws with the status and response.text();
\* sendMessage wraps the message and rethrows
HttpGetCompletionFails ==
    /\ http.stage = "responded"
    /\ http.mode = "lmstudio"
    /\ ~Ok(http.status)
    /\ http' = [http EXCEPT !.stage = "failed",
                  !.error = [wrapper |-> "LM Studio API request failed",
                             status |-> http.status,
                             body |-> <<http.bodyText>>]]
    /\ UNCHANGED <<engineVars, uiVars, bgm, extraction, gemini, stream, voice>>

\* streamResponse: !response.ok throws with the status only; sendMessage
\* wraps the message and rethrows
HttpStreamResponseFails ==
    /\ http.stage = "responded"
    /\ http.mode = "lmstudioStream"
    /\ ~Ok(http.status)
    /\ http' = [http EXCEPT !.stage = "failed",
                  !.error = [wrapper |-> "LM Studio API request failed",
                             status |-> http.status,
                             body |-> <<>>]]
    /\ UNCHANGED <<engineVars, uiVars, bgm, extraction, gemini, stream, voice>>

\* GeminiClient.sendMessage: !response.ok throws with the status and
\* response.text(); the catch wraps the message and rethrows
HttpGeminiFails ==
    /\ http.stage = "responded"
    /\ http.mode = "gemini"
    /\ ~Ok(http.status)
    /\ http' = [http EXCEPT !.stage = "failed",
                  !.error = [wrapper |-> "Gemini API request failed",
                             status |-> http.status,
                             body |-> <<http.bodyText>>]]
    /\ UNCHANGED <<engineVars, uiVars, bgm, extraction, gemini, stream, voice>>

\* a 2xx response: getCompletion and GeminiClient return the text taken
\* from response.json(); streamResponse returns what its read loop gathers,
\* whatever the body holds
HttpReturns ==
    /\ http.stage = "responded"
    /\ Ok(http.status)
    /\ http.mode = "lmstudioStream" \/ IsCompletionJson(http.bodyText)
    /\ http' = [http EXCEPT !.stage = "returned"]
    /\ UNCHANGED <<engineVars, uiVars, bgm, extraction, gemini, stream, voice>>

\* a 2xx response whose body is not JSON: response.json() rejects inside
\* getCompletion and GeminiClient.sendMessage; the error is wrapped and
\* rethrown and carries neither the status nor the body
HttpJsonFails ==
    /\ http.stage = "responded"
    /\ Ok(http.status)
    /\ http.mode # "lmstudioStream"
    /\ ~IsCompletionJson(http.bodyText)
    /\ http' = [http EXCEPT !.stage = "parseFailed",
                  !.error = [wrapper |-> IF http.mode = "gemini"
                                         THEN "Gemini API request failed"
                                         ELSE "LM Studio API request failed",
                             status |-> 0,
                             body |-> <<>>]]
    /\ UNCHANGED <<engineVars, uiVars, bgm, extraction, gemini, stream, voice>>

NextHttp ==
    \/ HttpFetch
    \/ HttpGetCompletionFails
    \/ HttpStreamResponseFails
    \/ HttpGeminiFails
    \/ HttpReturns
    \/ HttpJsonFails

SpecHttp == InitHttp /\ [][NextHttp]_vars

\* C27: for both backends, streaming or not, a response that is not 2xx
\* makes sendMessage fail with an error that carries the status code and the
\* response body text, after exactly one request.
HttpErrorCarriesStatusAndBody ==
    /\ (http.stage = "returned") => Ok(http.status)
    /\ (http.stage = "failed") =>
          /\ ~Ok(http.status)
          /\ http.fetches = 1
          /\ http.error.status = http.status
          /\ http.error.body = <<http.bodyText>>


----------------------------------------------------------------------------
(* VoicevoxClient.speakText: the playback handle and the clips             *)
(* A clip is the Audio element one speakText call creates.  Its state:     *)
(*   "none"      not created yet                                           *)
(*   "starting"  play() was called, playback has not begun                 *)
(*   "playing", "paused", "ended", "error", "abort", "rejected"            *)
(* The promise of its play() call is settled apart from the element: it    *)
(* can settle after a later call paused the clip and revoked its URL.      *)

MaxClips == 4

Clips == 1..MaxClips

Active == {"starting", "playing"}

InitVoice ==
    /\ SessionInit
    /\ bgm = "idle"
    /\ voice = [currentAudio |-> 0,
                clip |-> [c \in Clips |-> "none"],
                promise |-> [c \in Clips |-> "none"],
                released |-> [c \in Clips |-> FALSE],
                created |-> 0]
    /\ extraction = "idle" /\ gemini = "idle" /\ stream = "idle" /\ http = "idle"

\* `if (this.currentAudio) { revokeObjectURL(src) } this.currentAudio = null`
\* as the listeners and the catch block run it: on whatever currentAudio
\* refers to at that moment
ReleaseCurrent(v) ==
    [v EXCEPT !.released = IF v.currentAudio # 0
                           THEN [@ EXCEPT ![v.currentAudio] = TRUE] ELSE @,
              !.currentAudio = 0]

\* a speakText call got its audio blob: lines 116-188 up to `await play()`.
\* The clip currentAudio refers to is paused and released, the new clip
\* becomes currentAudio and is started.
VoiceStart ==
    /\ voice.created < MaxClips
    /\ LET c == voice.created + 1
           old == voice.currentAudio
           stopped == IF old = 0 THEN voice.clip
                      ELSE [voice.clip EXCEPT ![old] =
                              IF @ \in Active THEN "paused" ELSE @]
       IN  voice' = [voice EXCEPT
                !.created = c,
                !.currentAudio = c,
                !.released = IF old # 0 THEN [@ EXCEPT ![old] = TRUE] ELSE @,
                !.clip = [stopped EXCEPT ![c] = "starting"],
                !.promise = [@ EXCEPT ![c] = "pending"]]
    /\ UNCHANGED <<engineVars, uiVars, bgm, extraction, gemini, stream, http>>

\* a speakText call fails before it creates a clip (a fetch that rejects, a
\* response that is not ok): its catch block releases the clip of another
\* call
VoiceCallFails ==
    /\ voice' = ReleaseCurrent(voice)
    /\ UNCHANGED <<engineVars, uiVars, bgm, extraction, gemini, stream, http>>

\* the play() promise of clip c resolves: speakText returns true.  Playback
\* begins unless a later call has paused the clip meanwhile.
VoicePlayResolves(c) ==
    /\ voice.promise[c] = "pending"
    /\ voice' = [voice EXCEPT
                !.promise[c] = "resolved",
                !.clip[c] = IF @ = "starting" THEN "playing" ELSE @]
    /\ UNCHANGED <<engineVars, uiVars, bgm, extraction, gemini, stream, http>>

\* the play() promise of clip c is rejected (autoplay policy, undecodable
\* data, the pause() of a later call): the catch block of its call runs
VoicePlayRejected(c) ==
    /\ voice.promise[c] = "pending"
    /\ voice' = ReleaseCurrent([voice EXCEPT
                !.promise[c] = "rejected",
                !.clip[c] = IF @ = "starting" THEN "rejected" ELSE @])
    /\ UNCHANGED <<engineVars, uiVars, bgm, extraction, gemini, stream, http>>

\* the 'ended', 'error' or 'abort' listener of clip c runs.  The listeners
\* of a superseded clip stay registered, and each acts on whatever
\* currentAudio is.
VoiceMediaEvent(c, event) ==
    /\ IF event = "ended" THEN voice.clip[c] = "playing"
       ELSE voice.clip[c] \in {"starting", "playing", "paused", "rejected"}
    /\ voice' = ReleaseCurrent([voice EXCEPT !.clip[c] = event])
    /\ UNCHANGED <<engineVars, uiVars, bgm, extraction, gemini, stream, http>>

NextVoice ==
    \/ VoiceStart
    \/ VoiceCallFails
    \/ \E c \in Clips : VoicePlayResolves(c)
    \/ \E c \in Clips : VoicePlayRejected(c)
    \/ \E c \in Clips, event \in {"ended", "error", "abort"} :
          VoiceMediaEvent(c, event)

SpecVoice == InitVoice /\ [][NextVoice]_vars

\* C28: at most one clip is active at any time, whatever the interleaving of
\* overlapping speakText calls and audio events; a clip that was superseded
\* is paused and released; currentAudio refers to the clip that is playing,
\* or to none when nothing plays.
SpeechSingleClip ==
    /\ Cardinality({c \in Clips : voice.clip[c] \in Active}) <= 1
    /\ voice.currentAudio # 0 => voice.clip[voice.currentAudio] \in Active
    /\ \A c \in Clips : voice.clip[c] = "playing" => voice.currentAudio = c
    /\ \A c \in Clips : voice.clip[c] = "paused" => voice.released[c]


\* a is an initial segment of b
IsPrefix(a, b) == Len(a) <= Len(b) /\ SubSeq(b, 1, Len(a)) = a

\* what the two outcomes of a non-restart makeChoice leave in history
TurnAppendsTwoOrNone ==
    /\ (last'.op = "makeChoice" /\ last'.choiceId # "restart"
        /\ last'.kind = "returned" /\ last'.payload \in StorePayloads) =>
          gameState'.history =
             last'.pre.history
             \o <<getChoiceActionText(last'.preChoices, last'.choiceId),
                  gameState'.story>>
    /\ (last'.op = "makeChoice" /\ last'.choiceId # "restart"
        /\ last'.kind = "returned" /\ last'.payload = NoPayload) =>
          gameState'.history = last'.pre.history

\* the step is the rollback of a failed turn, a start or restart that
\* installed its opening scene, or a reset
RollbackRestartOrReset ==
    \/ last'.op = "makeChoice" /\ last'.kind = "returned"
       /\ last'.payload = NoPayload
    \/ last'.op \in {"startGame", "makeChoice"} /\ last'.kind = "returned"
       /\ last'.payload # NoPayload /\ gameState'.currentStep = 0
    \/ last'.op = "resetGame"

\* C29 as stated: a successful non-restart makeChoice leaves the pre-call
\* history followed by the action text and the new story, a failed one
\* leaves the pre-call history, and no operation other than rollback,
\* restart or reset removes or rewrites an existing entry.
HistoryAppendOnly ==
    [][/\ TurnAppendsTwoOrNone
       /\ ~IsPrefix(gameState.history, gameState'.history) =>
             RollbackRestartOrReset]_vars

\* C29, amended: as above, with loadGame, which installs the stored record
\* in place of the current history, among the operations that remove or
\* rewrite entries.
HistoryAppendOnlyButLoad ==
    [][/\ TurnAppendsTwoOrNone
       /\ ~IsPrefix(gameState.history, gameState'.history) =>
             \/ RollbackRestartOrReset
             \/ last'.op = "loadGame" /\ last'.kind = "loaded"
                /\ gameState' = storage[1]]_vars

\* loadGame replaced a history of five entries by the stored one of three
HistoryReplacedByLoadWitness ==
    /\ last.op = "loadGame" /\ last.kind = "loaded"
    /\ Len(last.pre.history) = 5
    /\ Len(gameState.history) = 3
    /\ ~IsPrefix(last.pre.history, gameState.history)


\* C30: the conversation makeChoice sends is one system turn with the system
\* prompt, then every history entry in order, the just-appended action
\* included, entries 0, 2, 4... as assistant turns and entries 1, 3, 5... as
\* user turns, then one user turn that embeds the chosen action; it has
\* history.length + 2 turns and the replayed turns alternate.
ConversationShape ==
    \A i \in 1..Len(inflight) :
        inflight[i].op = "makeChoice" =>
            LET m == inflight[i].messages
                h == gameState.history
                action == getChoiceActionText(inflight[i].preChoices,
                                              inflight[i].choiceId)
            IN  /\ Len(m) = Len(h) + 2
                /\ m[1] = [role |-> "system", content |-> <<"systemPrompt">>]
                /\ h = Append(inflight[i].pre.history, action)
                /\ \A k \in 1..Len(h) :
                      /\ m[k + 1].content = <<h[k]>>
                      /\ m[k + 1].role =
                            IF (k - 1) % 2 = 0 THEN "assistant" ELSE "user"
                /\ \A k \in 1..(Len(h) - 1) : m[k + 1].role # m[k + 2].role
                /\ m[Len(m)].role = "user"
                /\ Has(m[Len(m)].content, action)

\* a makeChoice request is outstanding in the second turn of a game
ConversationWitness ==
    /\ Len(inflight) = 1
    /\ inflight[1].op = "makeChoice"
    /\ inflight[1].choiceId = "c1"
    /\ Len(gameState.history) = 4
    /\ Len(inflight[1].messages) = 6


\* C31: in streaming mode onToken is called once per fragment with
\* non-empty content, in stream order and before sendMessage returns; the
\* tokens it was passed, concatenated, are the string sendMessage returns;
\* a fragment with empty content triggers no call.
CallbackMatchesReturn ==
    [][/\ IsPrefix(stream.tokens, stream'.tokens)
       /\ stream'.tokens = stream'.fullContent
       /\ stream'.state = "returned" =>
             /\ stream'.tokens = stream.tokens
             /\ stream'.tokens = ContentsOfBody(stream'.lines)
             /\ Len(stream'.tokens) =
                   Cardinality({k \in 1..Len(stream'.lines) :
                       stream'.lines[k] \in {DataLine("a"), DataLine("b")}})]_vars

\* two fragments with content around one with an empty delta were returned
CallbackWitness ==
    /\ stream.state = "returned"
    /\ stream.lines = <<DataLine("a"), EmptyDeltaLine, DataLine("b")>>
    /\ stream.tokens = <<"a", "b">>


\* C32: whenever no call is in progress, the engine's private choices list,
\* which makeChoice resolves ids against and returns in the failure bundle,
\* equals gameState.choices, right after loadGame and resetGame included.
PrivateChoicesMatchState ==
    inflight = <<>> => choices = gameState.choices


\* C33: when resetGame, startGame or loadGame replaced the state while a
\* makeChoice request was outstanding, so that the engine no longer holds
\* the state the call left behind when it issued its request, the
\* completion of that request, success or failure, leaves story, history,
\* currentStep, gameStatus and choices of the new state unchanged.
StaleResponseIgnored ==
    [][(/\ last'.op = "makeChoice"
        /\ last'.choiceId # "restart"
        /\ last'.kind = "returned"
        /\ gameState # AppendAction(last'.pre, last'.preChoices,
                                    last'.choiceId)) =>
            /\ gameState' = gameState
            /\ choices' = choices]_vars


\* C34: currentStep is never negative, for every interleaving of startGame,
\* makeChoice (succeeding or failing), resetGame and loadGame of a record
\* this engine saved; and it decreases only on rollback, restart and reset.
CurrentStepNeverNegative ==
    [][/\ gameState'.currentStep >= 0
       /\ gameState'.currentStep < gameState.currentStep =>
             \/ last'.op = "makeChoice" /\ last'.kind = "returned"
             \/ last'.op = "startGame" /\ last'.kind = "returned"
             \/ last'.op \in {"resetGame", "saveAndBackToTitle"}
             \/ gameState' = IdleState]_vars


----------------------------------------------------------------------------
(* BGMManager: play() and stop() as the engine calls them                  *)

MaxBgmCalls == 8

InitBgm ==
    /\ SessionInit
    /\ bgm = [isPlaying |-> FALSE,  \* BGMManager.isPlaying
              paused |-> TRUE,      \* audio.paused
              audible |-> FALSE,    \* playback has begun and was not paused
              pending |-> 0,        \* promises of play() calls the element
                                    \* accepted, not settled yet
              refused |-> 0,        \* promises of play() calls the element
                                    \* refused, not settled yet
              lastCall |-> "none",  \* the last of play() and stop()
              calls |-> 0]
    /\ extraction = "idle" /\ gemini = "idle" /\ stream = "idle"
    /\ http = "idle" /\ voice = "idle"

\* play(): audio.play() returns a promise.  accepted = TRUE: the element
\* starts playback (paused becomes false).  accepted = FALSE: autoplay is
\* not allowed or the source did not load; the element stays as it is and
\* the promise will be rejected.
BgmPlay(accepted) ==
    /\ bgm.calls < MaxBgmCalls
    /\ bgm' = IF accepted
              THEN [bgm EXCEPT !.paused = FALSE, !.pending = @ + 1,
                               !.lastCall = "play", !.calls = @ + 1]
              ELSE [bgm EXCEPT !.refused = @ + 1,
                               !.lastCall = "play", !.calls = @ + 1]
    /\ UNCHANGED <<engineVars, uiVars, extraction, gemini, stream, http, voice>>

\* .then of one play() promise: isPlaying = true, whatever stop() did to
\* the element meanwhile.  begun: the element is playing when the callback
\* runs.  A paused element is not; one that a later play() unpaused after
\* a stop() may still be seeking while the promise of an earlier play()
\* resolves, and plays once the promise of that later play() resolves.
BgmPlayResolves(begun) ==
    /\ bgm.pending > 0
    /\ IF begun THEN ~bgm.paused
       ELSE bgm.paused \/ (bgm.pending > 1 /\ ~bgm.audible)
    /\ bgm' = [bgm EXCEPT !.pending = @ - 1, !.isPlaying = TRUE,
                          !.audible = begun]
    /\ UNCHANGED <<engineVars, uiVars, extraction, gemini, stream, http, voice>>

\* .catch of one play() promise: the error is logged, nothing else changes.
\* wasAccepted = TRUE: playback had started and was aborted (pause(), a
\* load error); FALSE: the element had refused the call.
BgmPlayRejected(wasAccepted) ==
    /\ IF wasAccepted THEN bgm.pending > 0 ELSE bgm.refused > 0
    /\ bgm' = IF wasAccepted
              THEN [bgm EXCEPT !.pending = @ - 1]
              ELSE [bgm EXCEPT !.refused = @ - 1]
    /\ UNCHANGED <<engineVars, uiVars, extraction, gemini, stream, http, voice>>

\* stop(): pauses and clears isPlaying only when isPlaying is set; the
\* promises of earlier play() calls settle later
BgmStop ==
    /\ bgm.calls < MaxBgmCalls
    /\ bgm' = IF bgm.isPlaying
              THEN [bgm EXCEPT !.paused = TRUE, !.isPlaying = FALSE,
                               !.audible = FALSE,
                               !.lastCall = "stop", !.calls = @ + 1]
              ELSE [bgm EXCEPT !.lastCall = "stop", !.calls = @ + 1]
    /\ UNCHANGED <<engineVars, uiVars, extraction, gemini, stream, http, voice>>

NextBgm ==
    \/ \E accepted \in BOOLEAN : BgmPlay(accepted)
    \/ \E begun \in BOOLEAN : BgmPlayResolves(begun)
    \/ \E wasAccepted \in BOOLEAN : BgmPlayRejected(wasAccepted)
    \/ BgmStop

SpecBgm == InitBgm /\ [][NextBgm]_vars

\* C35: once stop() was called after a play() and every pending play()
\* promise has settled, the audio is not playing and isPlaying is false,
\* also when stop() was called before the play() promise resolved.
BgmStopIsEffective ==
    (bgm.lastCall = "stop" /\ bgm.pending = 0 /\ bgm.refused = 0) =>
        /\ ~bgm.audible
        /\ ~bgm.isPlaying


\* C36: after every successful startGame the state is the payload's story,
\* a history of that story alone, currentStep 0, gameStatus continue, the
\* payload's choices or none, and no result text, whatever the state before
\* and whatever gameStatus the opening payload carries.
StartGameInstallsOpening ==
    (/\ last.kind = "returned"
     /\ last.payload # NoPayload
     /\ last.op = "startGame" \/ last.choiceId = "restart") =>
        /\ gameState.story = last.payload.story
        /\ gameState.history = <<last.payload.story>>
        /\ gameState.currentStep = 0
        /\ gameState.gameStatus = "continue"
        /\ gameState.choices = IF last.payload.hasChoices
                               THEN last.payload.choices ELSE <<>>
        /\ gameState.gameResultDescription = Undefined
        /\ choices = gameState.choices

\* startGame was called on a finished game and answered with a payload
\* marked gameover
StartGameOpeningWitness ==
    /\ last.op = "startGame" /\ last.kind = "returned"
    /\ last.payload # NoPayload
    /\ last.payload.gameStatus = "gameover"
    /\ last.pre.gameStatus = "gameclear"
    /\ Len(last.pre.history) >= 3
    /\ gameState.gameStatus = "continue"


\* C37: for every state with a non-empty history, a saveGame that wrote the
\* slot followed by loadGame returns the saved state (kind "loaded") and
\* leaves it installed as the current state, equal in story, history,
\* currentStep, status, result text and choices.
SaveLoadRoundTrip ==
    [][(/\ last.op = "saveGame" /\ effects = <<>>
        /\ gameState.history # <<>>
        /\ last'.op = "loadGame") =>
            /\ last'.kind = "loaded"
            /\ gameState' = gameState]_vars


\* C38: the in-flight guard of every GameUI is always released: once a
\* handler has set its isProcessing and its engine call settles, that
\* isProcessing becomes false again; and while the isProcessing of a GameUI
\* is true a choice click starts no call of its engine.
ProcessingGuardReleased ==
    /\ isProcessing ~> ~isProcessing
    /\ \A e \in Slots : earlier[e].isProcessing ~> ~earlier[e].isProcessing
    /\ [][/\ isProcessing =>
              \A i \in (Len(inflight) + 1)..Len(inflight') :
                  inflight'[i].ui # "click"
          /\ \A e \in Slots : earlier[e].isProcessing =>
              \A i \in (Len(earlier[e].inflight) + 1)..Len(earlier'[e].inflight) :
                  earlier'[e].inflight[i].ui # "click"]_vars

\* a click set the guard, its call returned a scene, the animation ran and
\* the finally block released the guard, beside an earlier GameUI whose
\* startGame call settled and released the guard of that GameUI
ProcessingGuardWitness ==
    /\ last.op = "updateDisplay"
    /\ ~isProcessing
    /\ inflight = <<>> /\ animating = <<>>
    /\ gestures >= 2
    /\ \E e \in Slots : /\ earlier[e].gameState.history # <<>>
                        /\ earlier[e].inflight = <<>>
                        /\ ~earlier[e].isProcessing


\* C39: no fragment is lost at the end of the stream: when the body ends
\* with a `data: {...}` line that no newline terminates, the content of
\* that line is in the returned string and was passed to the callback.
StreamTailDelivered ==
    stream.state = "returned" =>
        /\ stream.fullContent = ContentsOfBody(stream.lines)
        /\ stream.tokens = ContentsOfBody(stream.lines)

====
